--------------------------- MODULE ContainerDeploy ---------------------------
(***************************************************************************)
(* Container deploys of the admin API: the approval store and its file,    *)
(* approve() and reject(), start_container() with its quota, the recovery  *)
(* at startup and the TTL timers.                                          *)
(*                                                                         *)
(* The routes call this code directly on the event loop, so one request is *)
(* in progress at a time; recover() runs in a thread of its own and every  *)
(* TTL timer too, and the containers live in Docker.                       *)
(***************************************************************************)
EXTENDS Naturals, FiniteSets

CONSTANTS
    Approvals,      \* approval ids; each is drawn once (uuid)
    Containers,     \* container ids; each is used once
    NoOne,          \* no approval, no container
    MaxContainers,  \* quota.max_containers
    ViewsImported,  \* apply_package_runtime_views is bound where it is called
    MaxFaults       \* bound: faults of the environment

\* What a container was started from, when not from an approval.
Direct == "direct"
Unused == "unused"

ASSUME DeployAssumption ==
    /\ IsFiniteSet(Containers)
    /\ NoOne \notin Approvals \cup Containers
    /\ Approvals \cap {Direct, Unused} = {}
    /\ MaxContainers \in Nat
    /\ MaxFaults \in Nat
    /\ ViewsImported \in BOOLEAN

VARIABLES
    pending,   \* _pending: the status of each entry, "none" for no entry
    file,      \* the approvals the file lists as pending
    newer,     \* the file is newer than _last_store_mtime
    known,     \* approvals that were requested
    late,      \* approvals past expires_at
    pc,        \* where the request in progress is
    req,       \* the approval it was started from, NoOne for a direct deploy
    cont,      \* the container it started
    seen,      \* what sync_from_docker() listed
    synced,    \* sync_from_docker() ran in this process
    active,    \* _active
    reserved,  \* _pending_starts
    armed,     \* containers with a TTL timer
    running,   \* Docker: running containers
    owner,     \* Docker: the approval each container was started from
    overdue,   \* Docker: containers past trion.expires_at
    rec,       \* where recover() is
    found,     \* what recover() has still to look at
    skipped,   \* history: containers recover() left without a timer
    refused,   \* history: approvals that were rejected or expired
    undone,    \* history: decided approvals that the file lists as pending
    faults     \* history: how many faults happened, and the excused kinds

storeVars == <<pending, file, newer, known, refused, undone>>
requestVars == <<pc, req, cont, seen, reserved>>
quotaVars == <<active, armed, synced>>
dockerVars == <<running, owner, overdue>>
recoverVars == <<rec, found, skipped>>
vars == <<pending, file, newer, known, late, pc, req, cont, seen, synced, active, reserved,
          armed, running, owner, overdue, rec, found, skipped, refused, undone, faults>>

Statuses == {"none", "pending", "approved", "rejected", "expired"}

Init ==
    /\ pending = [a \in Approvals |-> "none"]
    /\ file = {} /\ newer = FALSE /\ known = {} /\ late = {}
    /\ pc = "idle" /\ req = NoOne /\ cont = NoOne /\ seen = {} /\ synced = FALSE
    /\ active = {} /\ reserved = 0 /\ armed = {}
    /\ running = {} /\ owner = [c \in Containers |-> Unused] /\ overdue = {}
    /\ rec = "list" /\ found = {} /\ skipped = {}
    /\ refused = {} /\ undone = {} /\ faults = [n |-> 0, kinds |-> {}]

\* A fault of the environment; the ones a property excuses are remembered.
Fault(f) ==
    /\ faults.n < MaxFaults
    /\ faults' = [n |-> faults.n + 1, kinds |-> faults.kinds \cup ({f} \cap {"docker", "stop"})]

(***************************************************************************)
(* commander_approval_store                                                *)
(***************************************************************************)
PendingIn(p) == {a \in Approvals : p[a] = "pending"}

\* save_unlocked(): the whole store is written, or the error is logged and
\* swallowed.
Saved(p) ==
    \/ /\ file' = PendingIn(p)
       /\ newer' = TRUE
       /\ undone' = undone \cap PendingIn(p)
       /\ UNCHANGED faults
    \/ /\ Fault("save")
       /\ undone' = undone \cup (file \ PendingIn(p))
       /\ UNCHANGED <<file, newer>>

\* cleanup_expired_unlocked(): the entry moves to the history.
Expiring(p) == PendingIn(p) \cap late
Cleaned(p) == [a \in Approvals |-> IF a \in Expiring(p) THEN "none" ELSE p[a]]

\* sync_from_disk_if_stale(): the process's own writes count as newer, too.
Synced == [a \in Approvals |-> IF newer /\ a \in file /\ pending[a] = "none" THEN "pending"
                                                                           ELSE pending[a]]

get_pending ==
    /\ pc = "idle"
    /\ pending' = Cleaned(Synced)
    /\ refused' = refused \cup Expiring(Synced)
    /\ IF Expiring(Synced) = {}
       THEN newer' = FALSE /\ UNCHANGED <<file, undone, faults>>
       ELSE Saved(pending')
    /\ UNCHANGED <<known, late, requestVars, quotaVars, dockerVars, recoverVars>>

\* An expired entry is marked and stays where it is.
get_approval(a) ==
    /\ pc = "idle"
    /\ pending' = IF a \in Expiring(Synced) THEN [Synced EXCEPT ![a] = "expired"] ELSE Synced
    /\ refused' = refused \cup (Expiring(Synced) \cap {a})
    /\ newer' = FALSE
    /\ UNCHANGED <<file, known, late, undone, requestVars, quotaVars, dockerVars, recoverVars,
                   faults>>

(***************************************************************************)
(* approve(), reject() and the deploy route: the start of a request.       *)
(***************************************************************************)
api_deploy_container ==
    /\ pc = "idle"
    /\ pc' = "begin"
    /\ req' = NoOne
    /\ UNCHANGED <<storeVars, late, cont, seen, reserved, quotaVars, dockerVars, recoverVars,
                   faults>>

\* APPROVED is set in memory only; nothing is saved before the start ended.
approve(a) ==
    /\ pc = "idle"
    /\ pending[a] = "pending"
    /\ a \notin late
    /\ pending' = [pending EXCEPT ![a] = "approved"]
    /\ pc' = "begin"
    /\ req' = a
    /\ UNCHANGED <<file, newer, known, refused, undone, late, cont, seen, reserved, quotaVars,
                   dockerVars, recoverVars, faults>>

ApproveExpired(a) ==
    /\ pc = "idle"
    /\ pending[a] # "none"
    /\ a \in late
    /\ pending' = [pending EXCEPT ![a] = "none"]
    /\ refused' = refused \cup {a}
    /\ Saved(pending')
    /\ UNCHANGED <<known, late, requestVars, quotaVars, dockerVars, recoverVars>>

reject(a) ==
    /\ pc = "idle"
    /\ pending[a] = "pending"
    /\ pending' = [pending EXCEPT ![a] = "none"]
    /\ refused' = refused \cup {a}
    /\ Saved(pending')
    /\ UNCHANGED <<known, late, requestVars, quotaVars, dockerVars, recoverVars>>

\* log_action() raises after REJECTED is set: the entry stays, unsaved.
RejectUnlogged(a) ==
    /\ pc = "idle"
    /\ pending[a] = "pending"
    /\ Fault("audit")
    /\ pending' = [pending EXCEPT ![a] = "rejected"]
    /\ refused' = refused \cup {a}
    /\ undone' = undone \cup ({a} \cap file)
    /\ UNCHANGED <<file, newer, known, late, requestVars, quotaVars, dockerVars, recoverVars>>

(***************************************************************************)
(* start_container()                                                       *)
(***************************************************************************)
\* The request ends: approve() drops its entry and saves, whatever the
\* outcome was.
Ends ==
    /\ pc' = "idle"
    /\ req' = NoOne
    /\ cont' = NoOne
    /\ seen' = seen
    /\ IF req = NoOne
       THEN UNCHANGED <<pending, file, newer, undone, faults>>
       ELSE /\ pending' = [pending EXCEPT ![req] = "none"]
            /\ Saved(pending')

\* Ends, with a fault of the environment as the reason; the save succeeds.
EndsBy(fault) ==
    /\ Fault(fault)
    /\ pc' = "idle"
    /\ req' = NoOne
    /\ cont' = NoOne
    /\ seen' = seen
    /\ IF req = NoOne
       THEN UNCHANGED <<pending, file, newer, undone>>
       ELSE /\ pending' = [pending EXCEPT ![req] = "none"]
            /\ file' = PendingIn(pending')
            /\ newer' = TRUE
            /\ undone' = undone \cap PendingIn(pending')

\* A name that is not bound ends every request before anything was done.
Unbound ==
    /\ ~ViewsImported
    /\ Ends
    /\ UNCHANGED <<known, refused>>

\* The blueprint is not there, its hardware, views or mounts cannot be
\* prepared, its digest or its signature is not trusted.
enforce_trust_gates ==
    /\ ViewsImported
    /\ EndsBy("prepare")
    /\ UNCHANGED <<known, refused>>

\* A risky blueprint makes an approval of a direct request.
request_approval(a) ==
    /\ ViewsImported
    /\ req = NoOne
    /\ pending' = [Cleaned(pending) EXCEPT ![a] = "pending"]
    /\ refused' = refused \cup Expiring(pending)
    /\ known' = known \cup {a}
    /\ Saved(pending')
    /\ pc' = "idle"
    /\ UNCHANGED <<req, cont, seen>>

\* Blueprint, hardware, package views and mounts are resolved; the approval
\* gate, which skip_approval opens, and the trust gates are passed.
Begin ==
    /\ pc = "begin"
    /\ \/ Unbound
       \/ enforce_trust_gates
       \/ \E a \in Approvals \ known : request_approval(a)
       \/ /\ ViewsImported
          /\ pc' = "sync"
          /\ UNCHANGED <<storeVars, req, cont, seen, faults>>
    /\ UNCHANGED <<late, reserved, quotaVars, dockerVars, recoverVars>>

\* sync_from_docker(): skipped within two seconds of the last one or when
\* Docker does not answer.  The listing is taken outside the lock.
SyncSkips ==
    /\ pc = "sync"
    /\ \/ synced /\ UNCHANGED faults
       \/ Fault("docker")
    /\ pc' = "reserve"
    /\ UNCHANGED <<storeVars, late, req, cont, seen, reserved, quotaVars, dockerVars, recoverVars>>

SyncLists ==
    /\ pc = "sync"
    /\ seen' = running
    /\ pc' = "apply"
    /\ UNCHANGED <<storeVars, late, req, cont, reserved, quotaVars, dockerVars, recoverVars,
                   faults>>

SyncApplies ==
    /\ pc = "apply"
    /\ armed' = armed \ (active \ seen)
    /\ active' = seen
    /\ synced' = TRUE
    /\ seen' = {}
    /\ pc' = "reserve"
    /\ UNCHANGED <<storeVars, late, req, cont, reserved, dockerVars, recoverVars, faults>>

\* Mutant: the limit is off by one.
ReserveOneMore ==
    /\ pc = "reserve"
    /\ IF Cardinality(active) + reserved > MaxContainers
       THEN Ends /\ UNCHANGED reserved
       ELSE /\ reserved' = reserved + 1
            /\ pc' = "run"
            /\ UNCHANGED <<pending, file, newer, undone, req, cont, seen, faults>>
    /\ UNCHANGED <<known, refused, late, quotaVars, dockerVars, recoverVars>>

\* reserve_quota()
Reserve ==
    /\ pc = "reserve"
    /\ IF Cardinality(active) + reserved >= MaxContainers
       THEN Ends /\ UNCHANGED reserved
       ELSE /\ reserved' = reserved + 1
            /\ pc' = "run"
            /\ UNCHANGED <<pending, file, newer, undone, req, cont, seen, faults>>
    /\ UNCHANGED <<known, refused, late, quotaVars, dockerVars, recoverVars>>

\* The image, the environment or Docker fail; the finally clause releases.
RunFails ==
    /\ pc = "run"
    /\ EndsBy("run")
    /\ reserved' = reserved - 1
    /\ UNCHANGED <<known, refused, late, quotaVars, dockerVars, recoverVars>>

\* The ids are fresh, so which of them is drawn does not matter.
NextContainer == CHOOSE c \in Containers \cup {NoOne} :
    IF \E d \in Containers : owner[d] = Unused THEN c \in Containers /\ owner[c] = Unused
                                               ELSE c = NoOne

Run(c) ==
    /\ pc = "run"
    /\ c = NextContainer
    /\ owner' = [owner EXCEPT ![c] = IF req = NoOne THEN Direct ELSE req]
    /\ running' = running \cup {c}
    /\ cont' = c
    /\ pc' = "check"
    /\ UNCHANGED <<storeVars, late, req, seen, reserved, quotaVars, overdue, recoverVars, faults>>

\* The container is removed; a removal that fails is ignored.
cleanup_failed_container_start ==
    \/ EndsBy("check") /\ running' = running \ {cont}
    \/ EndsBy("docker") /\ running' = running

\* The container is not ready, or a package check fails.
CheckFails ==
    /\ pc = "check"
    /\ cleanup_failed_container_start
    /\ reserved' = reserved - 1
    /\ UNCHANGED <<known, refused, late, quotaVars, owner, overdue, recoverVars>>

\* commit_quota_reservation()
Commit ==
    /\ pc = "check"
    /\ active' = active \cup {cont}
    /\ reserved' = reserved - 1
    /\ pc' = "tail"
    /\ UNCHANGED <<storeVars, late, req, cont, seen, armed, synced, dockerVars, recoverVars,
                   faults>>

\* Mutant: the approval is dropped from memory, and not from the file.
TailUnsaved ==
    /\ pc = "tail"
    /\ armed' = armed \cup {cont}
    /\ pc' = "idle"
    /\ req' = NoOne /\ cont' = NoOne /\ seen' = seen
    /\ pending' = IF req = NoOne THEN pending ELSE [pending EXCEPT ![req] = "none"]
    /\ UNCHANGED <<file, newer, undone, faults, known, refused, late, reserved, active, synced,
                   dockerVars, recoverVars>>

\* set_ttl_timer(), and the end of approve().
Tail ==
    /\ pc = "tail"
    /\ armed' = armed \cup {cont}
    /\ Ends
    /\ UNCHANGED <<known, refused, late, reserved, active, synced, dockerVars, recoverVars>>

(***************************************************************************)
(* recover(), in its own thread, once per process.                         *)
(***************************************************************************)
RecoverLists ==
    /\ rec = "list"
    /\ \/ found' = running /\ rec' = "register" /\ UNCHANGED faults
       \/ found' = {} /\ rec' = "done" /\ Fault("docker")
    /\ UNCHANGED <<storeVars, late, requestVars, quotaVars, dockerVars, skipped>>

\* Mutant: a recovered container gets no timer.
RecoverUntimed(c) ==
    /\ rec = "register"
    /\ c \in found
    /\ found' = found \ {c}
    /\ IF c \in active \/ c \notin overdue
       THEN /\ active' = active \cup {c}
            /\ skipped' = IF c \in active \ armed THEN skipped \cup {c} ELSE skipped
            /\ UNCHANGED <<running, faults>>
       ELSE running' = running \ {c} /\ UNCHANGED <<active, skipped, faults>>
    /\ UNCHANGED <<storeVars, late, requestVars, armed, synced, owner, overdue, rec>>

\* A container that is in the table already is left alone: after
\* sync_from_docker() put it there, it has no timer.
RecoverOne(c) ==
    /\ rec = "register"
    /\ c \in found
    /\ found' = found \ {c}
    /\ \/ /\ c \in active
          /\ skipped' = IF c \in armed THEN skipped ELSE skipped \cup {c}
          /\ UNCHANGED <<active, armed, running, faults>>
       \/ /\ c \notin active
          /\ c \in overdue
          /\ \/ running' = running \ {c} /\ UNCHANGED faults
             \/ running' = running /\ Fault("stop")
          /\ UNCHANGED <<active, armed, skipped>>
       \/ /\ c \notin active
          /\ c \notin overdue
          /\ active' = active \cup {c}
          /\ armed' = armed \cup {c}
          /\ UNCHANGED <<running, skipped, faults>>
    /\ UNCHANGED <<storeVars, late, requestVars, synced, owner, overdue, rec>>

RecoverEnds ==
    /\ rec = "register"
    /\ found = {}
    /\ rec' = "done"
    /\ UNCHANGED <<storeVars, late, requestVars, quotaVars, dockerVars, found, skipped, faults>>

(***************************************************************************)
(* Timers, containers, time and crashes.                                   *)
(***************************************************************************)
\* _timeout(): stop_container over MCP, once.
TimerFires(c) ==
    /\ c \in armed \cap overdue
    /\ armed' = armed \ {c}
    /\ \/ running' = running \ {c} /\ UNCHANGED faults
       \/ running' = running /\ Fault("stop")
    /\ UNCHANGED <<storeVars, late, requestVars, active, synced, owner, overdue, recoverVars>>

ContainerExits(c) ==
    /\ c \in running
    /\ running' = running \ {c}
    /\ UNCHANGED <<storeVars, late, requestVars, quotaVars, owner, overdue, recoverVars, faults>>

\* A stopped container is started over MCP, past this process.
ContainerRestarted(c) ==
    /\ owner[c] # Unused
    /\ c \notin running
    /\ Fault("docker")
    /\ running' = running \cup {c}
    /\ UNCHANGED <<storeVars, late, requestVars, quotaVars, owner, overdue, recoverVars>>

ContainerOverdue(c) ==
    /\ c \in running \ overdue
    /\ overdue' = overdue \cup {c}
    /\ UNCHANGED <<storeVars, late, requestVars, quotaVars, running, owner, recoverVars, faults>>

ApprovalLate(a) ==
    /\ a \in known \ late
    /\ late' = late \cup {a}
    /\ UNCHANGED <<storeVars, requestVars, quotaVars, dockerVars, recoverVars, faults>>

\* The process dies and starts again: load_store() takes the pending rows of
\* the file, expires some and saves.  Containers keep running.
Crash ==
    LET loaded == [a \in Approvals |-> IF a \in file \ late THEN "pending" ELSE "none"]
    IN /\ Fault("crash")
       /\ pending' = loaded
       /\ file' = PendingIn(loaded)
       /\ newer' = TRUE
       /\ refused' = refused \cup (file \cap late)
       /\ undone' = (undone \cup ({req} \cap file)) \cap PendingIn(loaded)
       /\ pc' = "idle" /\ req' = NoOne /\ cont' = NoOne /\ seen' = {} /\ synced' = FALSE
       /\ active' = {} /\ reserved' = 0 /\ armed' = {}
       /\ rec' = "list" /\ found' = {} /\ skipped' = {}
       /\ UNCHANGED <<known, late, dockerVars>>

RequestStep ==
    \/ Begin \/ SyncSkips \/ SyncLists \/ SyncApplies \/ Reserve \/ RunFails
    \/ CheckFails \/ Commit \/ Tail
    \/ \E c \in Containers : Run(c)

RecoverStep == RecoverLists \/ RecoverEnds \/ \E c \in Containers : RecoverOne(c)

Next ==
    \/ get_pending \/ api_deploy_container \/ RequestStep \/ RecoverStep \/ Crash
    \/ \E a \in Approvals : get_approval(a) \/ approve(a) \/ ApproveExpired(a) \/ reject(a)
                            \/ RejectUnlogged(a) \/ ApprovalLate(a)
    \/ \E c \in Containers : TimerFires(c) \/ ContainerExits(c) \/ ContainerRestarted(c)
                             \/ ContainerOverdue(c)

\* The event loop runs a request to its end, the recovery thread and the
\* timers are threads of their own.
Spec ==
    /\ Init
    /\ [][Next]_vars
    /\ WF_vars(RequestStep)
    /\ WF_vars(RecoverStep)
    /\ \A c \in Containers : WF_vars(TimerFires(c))

(***************************************************************************)
(* Properties.                                                             *)
(***************************************************************************)
TypeOK ==
    /\ pending \in [Approvals -> Statuses]
    /\ file \subseteq known /\ known \subseteq Approvals /\ late \subseteq known
    /\ pc \in {"idle", "begin", "sync", "apply", "reserve", "run", "check", "tail"}
    /\ req \in Approvals \cup {NoOne}
    /\ cont \in Containers \cup {NoOne}
    /\ active \cup armed \cup running \cup overdue \cup seen \cup found \subseteq Containers
    /\ owner \in [Containers -> Approvals \cup {Direct, Unused}]
    /\ reserved \in {0, 1}

\* An approval starts at most one container, and none after it was rejected
\* or has expired: the entry is dropped and saved at the end of approve(),
\* and neither a second approve(), nor a listing that reads the file again,
\* nor a restart brings it back, unless its decision never reached the file
\* (a crash while its container starts, a save or an audit entry that
\* failed).
ApprovalUsedOnce ==
    [][\A c \in Containers :
          LET a == owner'[c]
          IN owner[c] = Unused /\ a \in Approvals
             => \/ a \notin refused /\ \A d \in Containers : owner[d] # a
                \/ a \in undone]_vars

\* The quota of running containers holds over restarts, failed starts and
\* containers that exit, and every reservation is returned; only a container
\* that was restarted or left behind, or a listing that failed, exceeds it.
QuotaHolds ==
    /\ "docker" \notin faults.kinds => Cardinality(running) <= MaxContainers
    /\ pc \in {"idle", "begin", "sync", "apply", "reserve", "tail"} => reserved = 0

\* A container past its TTL is stopped, by its timer or by the recovery of
\* the next process, unless recover() found it in the table already.
TTLEnforced ==
    \A c \in Containers :
        (c \in running \cap overdue) ~>
            \/ c \notin running
            \/ c \in skipped
            \/ faults.kinds # {}

\* "Deploy a container from a blueprint via Docker Engine": with nothing wrong
\* around it, the first deploy request starts a container or leaves an approval
\* to decide on.
DeployTakesEffect ==
    pc = "begin" ~> \/ \E c \in Containers : owner[c] # Unused
                    \/ \E a \in Approvals : pending[a] = "pending"
                    \/ faults.n # 0

=============================================================================
