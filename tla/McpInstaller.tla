---------------------------- MODULE McpInstaller ----------------------------
(***************************************************************************)
(* The installer of custom MCP bundles (mcp/installer): bundle files,      *)
(* the registry file and the hub's published view of it, under crashes,    *)
(* failing writes, edits from outside and the reconciliation of a hub that *)
(* initializes in a worker thread.                                         *)
(*                                                                         *)
(* The routes run on the event loop: between two awaits a handler is not   *)
(* interrupted by another handler, only by worker threads and by a crash.  *)
(* A handler is a chain of stages (loop.stage), one per durable change.    *)
(* An MCP's settings are its enabled flag and its tool-intent mirror.      *)
(***************************************************************************)
EXTENDS Naturals, FiniteSets

CONSTANTS
    Names,      \* identifiers of custom MCPs
    Nil         \* no registry entry

VARIABLES
    bundle,       \* MCPs whose directory exists under custom_mcps/
    receipt,      \* MCPs with an install receipt in their directory
    config,       \* enabled flag of the manifest in the bundle
    intents,      \* tool_intents.json of the bundle
    registry,     \* mcp_registry.json: custom entries
    hub,          \* desired state of the published catalog
    initialized,  \* MCPHub._initialized
    reconciled,   \* history: reconciliation ran in this process
    loop,         \* the handler the event loop is in
    worker,       \* the thread inside MCPHub.initialize()
    faults        \* history: what went wrong from outside

vars == <<bundle, receipt, config, intents, registry, hub, initialized, reconciled,
          loop, worker, faults>>
files == <<bundle, receipt, config, intents>>
hubVars == <<hub, initialized, reconciled>>

Mirrors == {"none", "v1", "v2"}
Intents == Mirrors \cup {"bad"}       \* bad: the file does not validate
Entries == [on : BOOLEAN, mirror : Mirrors, managed : BOOLEAN]

ASSUME InstallerAssumption ==
    /\ Nil \notin Names
    /\ Nil \notin Entries

Idle == [op |-> "idle", stage |-> "idle", name |-> Nil, want |-> Nil, undo |-> FALSE]
Asleep == [stage |-> "idle", snap |-> [n \in Names |-> Nil], left |-> {}, name |-> Nil,
           entry |-> Nil]
NoView == [n \in Names |-> Nil]

\* registry_entry_from_config(): the marker is always the installer's.
Entry(on, mirror) == [on |-> on, mirror |-> mirror, managed |-> TRUE]

\* is_installer_owned()
Owned(n) == n \in bundle /\ n \in receipt

\* The hub's lock is the worker's while it initializes.
HubFree == worker.stage = "idle"

(***************************************************************************)
(* A fresh system, or one with an entry of an older installer (no marker). *)
(***************************************************************************)
Init ==
    /\ \E old \in SUBSET Names, noted \in SUBSET Names :
          /\ bundle = old
          /\ receipt = old \cap noted
          /\ registry = [n \in Names |->
                IF n \in old THEN [on |-> TRUE, mirror |-> "v1", managed |-> FALSE] ELSE Nil]
    /\ config = [n \in Names |-> TRUE]
    /\ intents = [n \in Names |-> IF n \in bundle THEN "v1" ELSE "none"]
    /\ hub = NoView
    /\ initialized = FALSE
    /\ reconciled = FALSE
    /\ loop = Idle
    /\ worker = Asleep
    /\ faults = {}

(***************************************************************************)
(* POST /install                                                           *)
(***************************************************************************)
Goto(stage) == loop' = [loop EXCEPT !.stage = stage]

\* The upload is read and extracted; a known name is refused with 409.
InstallMoves ==
    /\ loop.op = "idle"
    /\ \E n \in Names, on \in BOOLEAN, file \in {"none", "v1"} :
          /\ n \notin bundle
          /\ registry[n] = Nil
          /\ bundle' = bundle \cup {n}
          /\ receipt' = receipt \ {n}
          /\ config' = [config EXCEPT ![n] = on]
          /\ intents' = [intents EXCEPT ![n] = file]
          /\ loop' = [op |-> "install", stage |-> "runtime", name |-> n,
                      want |-> Entry(on, file), undo |-> FALSE]
    /\ UNCHANGED <<registry, hubVars, worker, faults>>

PrepareRuntime ==
    /\ loop.stage = "runtime"
    /\ Goto("upsert") \/ Goto("clean_registry")
    /\ UNCHANGED <<files, registry, hubVars, worker, faults>>

InstallUpserts ==
    /\ loop.stage = "upsert"
    /\ \/ /\ registry' = [registry EXCEPT ![loop.name] = loop.want]
          /\ Goto("receipt")
       \/ /\ Goto("clean_registry")
          /\ UNCHANGED registry
    /\ UNCHANGED <<files, hubVars, worker, faults>>

WriteReceipt ==
    /\ loop.stage = "receipt"
    /\ \/ /\ receipt' = receipt \cup {loop.name}
          /\ Goto("reload")
       \/ /\ Goto("clean_registry")
          /\ UNCHANGED receipt
    /\ UNCHANGED <<bundle, config, intents, registry, hubVars, worker, faults>>

(***************************************************************************)
(* reload_hub_registry() and require_registry_postcondition(), common to   *)
(* all routes.  A reload waits for a worker that initializes, and may fail *)
(* before it publishes (registry unreadable) or after (a transport could   *)
(* not be retired).  It marks the hub initialized without a reconciliation.*)
(***************************************************************************)
\* Mutant: a failed reload does not keep the bundle from being removed.
ReloadFailsGoesOn == [install |-> "clean_registry", delete |-> "remove",
                      update |-> "failed", rollback |-> "remove"]
\* Mutant: the rollback ends before it removes the bundle.
ConfirmedKeepsBundle == [install |-> "done", delete |-> "remove", update |-> "done",
                         rollback |-> "failed"]

ReloadFails == [install |-> "clean_registry", delete |-> "failed",
                update |-> "failed", rollback |-> "failed"]
Confirmed == [install |-> "done", delete |-> "remove", update |-> "done",
              rollback |-> "remove"]

\* Mutant: the published view is not compared with what was asked for.
ReloadUnchecked ==
    /\ loop.stage = "reload"
    /\ HubFree
    /\ hub' = registry
    /\ initialized' = TRUE
    /\ Goto(Confirmed[loop.op])
    /\ UNCHANGED <<files, registry, reconciled, worker, faults>>

Reload ==
    /\ loop.stage = "reload"
    /\ HubFree
    /\ \/ /\ hub' = registry
          /\ initialized' = TRUE
          /\ Goto(IF registry[loop.name] = loop.want THEN Confirmed[loop.op]
                                                     ELSE ReloadFails[loop.op])
          /\ UNCHANGED faults
       \/ /\ hub' \in {hub, registry}
          /\ Goto(ReloadFails[loop.op])
          /\ faults' = IF loop.op = "rollback" THEN faults \cup {"cleanup"} ELSE faults
          /\ UNCHANGED initialized
    /\ UNCHANGED <<files, registry, reconciled, worker>>

\* Removal of the bundle directory, of all of it or of part of it.
RemoveTree ==
    /\ loop.stage = "remove"
    /\ \/ /\ bundle' = bundle \ {loop.name}
          /\ receipt' = receipt \ {loop.name}
          /\ intents' = [intents EXCEPT ![loop.name] = "none"]
          /\ Goto("done")
          /\ UNCHANGED faults
       \/ /\ receipt' \in {receipt, receipt \ {loop.name}}
          /\ Goto("failed")
          /\ faults' = faults \cup {"cleanup"}
          /\ UNCHANGED <<bundle, intents>>
    /\ UNCHANGED <<config, registry, hubVars, worker>>

\* The handler answers: success, or an HTTP error.
Answer ==
    /\ loop.stage \in {"done", "failed"}
    /\ loop' = Idle
    /\ UNCHANGED <<files, registry, hubVars, worker, faults>>

(***************************************************************************)
(* _cleanup_failed_install(): registry, then hub, then bundle; the first   *)
(* stage that fails ends it.                                               *)
(***************************************************************************)
CleanupRemovesEntry ==
    /\ loop.stage = "clean_registry"
    /\ \/ /\ registry' = [registry EXCEPT ![loop.name] = Nil]
          /\ loop' = [loop EXCEPT !.op = "rollback", !.stage = "reload", !.want = Nil]
          /\ UNCHANGED faults
       \/ /\ Goto("failed")
          /\ faults' = faults \cup {"cleanup"}
          /\ UNCHANGED registry
    /\ UNCHANGED <<files, hubVars, worker>>

(***************************************************************************)
(* DELETE /{name}                                                          *)
(***************************************************************************)
DeleteRemovesEntry ==
    /\ loop.op = "idle"
    /\ \E n \in Names :
          /\ Owned(n)
          /\ \/ /\ registry' = [registry EXCEPT ![n] = Nil]
                /\ loop' = [Idle EXCEPT !.op = "delete", !.stage = "reload", !.name = n]
             \/ /\ loop' = [Idle EXCEPT !.op = "delete", !.stage = "failed", !.name = n]
                /\ UNCHANGED registry
    /\ UNCHANGED <<files, hubVars, worker, faults>>

(***************************************************************************)
(* POST /{name}/toggle and PUT /{name}/config.                             *)
(***************************************************************************)
\* preserve_tool_intents(): the bundle's file, or the registry's mirror when
\* the file is gone; a file that does not validate fails the request.
Preserved(n) ==
    IF intents[n] # "none" THEN intents[n]
    ELSE IF registry[n] = Nil THEN "none" ELSE registry[n].mirror

\* apply_config_and_registry_update() saves the manifest first.  PUT may set
\* either flag and asks only for the manifest, so it covers the toggle.  Save
\* and upsert share REGISTRY_LOCK: only a crash tells them apart (a write of
\* the worker in between is the same as one before).
UpdateSaves ==
    /\ loop.op = "idle"
    /\ \E n \in bundle, on \in BOOLEAN :
          /\ intents[n] # "bad"
          /\ config' = [config EXCEPT ![n] = on]
          /\ loop' = [op |-> "update", stage |-> "apply", name |-> n,
                      want |-> Entry(on, Preserved(n)), undo |-> config[n]]
    /\ UNCHANGED <<bundle, receipt, intents, registry, hubVars, worker, faults>>

\* Mutant: the manifest is not restored.
UpdateNotRestored ==
    /\ loop.stage = "apply"
    /\ \/ /\ registry' = [registry EXCEPT ![loop.name] = loop.want]
          /\ Goto("reload")
       \/ /\ Goto("failed")
          /\ UNCHANGED registry
    /\ UNCHANGED <<files, hubVars, worker, faults>>

\* ... then upserts the entry, and writes the old manifest back if that
\* fails.  That write may fail as well: the new manifest stays.
UpdateUpserts ==
    /\ loop.stage = "apply"
    /\ \/ /\ registry' = [registry EXCEPT ![loop.name] = loop.want]
          /\ Goto("reload")
          /\ UNCHANGED <<config, faults>>
       \/ /\ config' = [config EXCEPT ![loop.name] = loop.undo]
          /\ Goto("failed")
          /\ UNCHANGED <<registry, faults>>
       \/ /\ faults' = faults \cup {"restore"}
          /\ Goto("failed")
          /\ UNCHANGED <<config, registry>>
    /\ UNCHANGED <<bundle, receipt, intents, hubVars, worker>>

\* POST /mcp/refresh: a reload with no change behind it.
Refresh ==
    /\ loop.op = "idle"
    /\ HubFree
    /\ hub' = registry
    /\ initialized' = TRUE
    /\ UNCHANGED <<files, registry, reconciled, loop, worker, faults>>

(***************************************************************************)
(* MCPHub.initialize() in a worker thread: reconcile, then build and       *)
(* publish, all under the hub's lock.                                      *)
(***************************************************************************)
\* reconcile_tool_manifest_mirrors() walks over one reading of the registry.
WorkerReads ==
    /\ worker.stage = "idle"
    /\ ~initialized
    /\ worker' = [worker EXCEPT !.stage = "walk", !.snap = registry,
                                !.left = {n \in Names : registry[n] # Nil}]
    /\ UNCHANGED <<files, registry, hubVars, loop, faults>>

\* Mutant: the mirror of a bad file stays.
FreshMirrorStale(n) ==
    IF intents[n] \in Mirrors THEN intents[n] ELSE worker.snap[n].mirror

\* _refresh_mirror(): the bundle's file is the source; none or a bad one
\* leaves no mirror.
FreshMirror(n) == IF intents[n] \in Mirrors THEN intents[n] ELSE "none"

\* Mutant: an entry is an orphan when its receipt is missing.
RepairedByReceipt(n) ==
    IF n \notin receipt THEN Nil ELSE Entry(worker.snap[n].on, FreshMirror(n))

\* _reconcile_entry(): what to write back for n, Nil to remove the entry.
Repaired(n) ==
    IF n \notin bundle THEN Nil ELSE Entry(worker.snap[n].on, FreshMirror(n))

WorkerExamines(n) ==
    /\ worker.stage = "walk"
    /\ n \in worker.left
    /\ LET known == worker.snap[n].managed \/ Owned(n)
           keep == ~known \/ Repaired(n) = worker.snap[n]
       IN worker' = IF keep
                    THEN [worker EXCEPT !.left = @ \ {n}]
                    ELSE [worker EXCEPT !.left = @ \ {n}, !.stage = "write", !.name = n,
                                        !.entry = Repaired(n)]
    /\ UNCHANGED <<files, registry, hubVars, loop, faults>>

\* One write per entry.  It replaces whatever the registry says by now.
WorkerWrites ==
    /\ worker.stage = "write"
    /\ registry' = [registry EXCEPT ![worker.name] = worker.entry]
    /\ faults' = IF registry[worker.name] = worker.snap[worker.name]
                 THEN faults ELSE faults \cup {"race"}
    /\ worker' = [worker EXCEPT !.stage = "walk", !.name = Nil, !.entry = Nil]
    /\ UNCHANGED <<files, hubVars, loop>>

\* A registry that cannot be read or written ends initialize() with an error.
WorkerFails ==
    /\ worker.stage \in {"walk", "write"}
    /\ worker' = Asleep
    /\ UNCHANGED <<files, registry, hubVars, loop, faults>>

WorkerPublishes ==
    /\ worker.stage = "walk"
    /\ worker.left = {}
    /\ hub' = registry
    /\ initialized' = TRUE
    /\ reconciled' = TRUE
    /\ worker' = Asleep
    /\ UNCHANGED <<files, registry, loop, faults>>

(***************************************************************************)
(* The outside: the process dies and starts again; an operator edits a     *)
(* bundle, or removes it by hand between two requests.                     *)
(***************************************************************************)
Crash ==
    /\ loop' = Idle
    /\ worker' = Asleep
    /\ hub' = NoView
    /\ initialized' = FALSE
    /\ reconciled' = FALSE
    /\ faults' = faults \cup {"crash"}
    /\ UNCHANGED <<files, registry>>

Meanwhile ==
    IF worker.stage = "idle" /\ loop.op = "idle" THEN {} ELSE {"meanwhile"}

EditIntents(n) ==
    /\ n \in bundle
    /\ \E f \in Intents : intents' = [intents EXCEPT ![n] = f]
    /\ faults' = faults \cup Meanwhile
    /\ UNCHANGED <<bundle, receipt, config, registry, hubVars, loop, worker>>

RemoveByHand(n) ==
    /\ loop.op = "idle"
    /\ n \in bundle
    /\ bundle' = bundle \ {n}
    /\ receipt' = receipt \ {n}
    /\ intents' = [intents EXCEPT ![n] = "none"]
    /\ faults' = faults \cup {"hand"} \cup Meanwhile
    /\ UNCHANGED <<config, registry, hubVars, loop, worker>>

Next ==
    \/ InstallMoves \/ PrepareRuntime \/ InstallUpserts \/ WriteReceipt
    \/ CleanupRemovesEntry \/ DeleteRemovesEntry \/ UpdateSaves \/ UpdateUpserts
    \/ Reload \/ RemoveTree \/ Answer \/ Refresh
    \/ WorkerReads \/ WorkerWrites \/ WorkerFails \/ WorkerPublishes
    \/ Crash
    \/ \E n \in Names : WorkerExamines(n) \/ EditIntents(n) \/ RemoveByHand(n)

Spec == Init /\ [][Next]_vars

(***************************************************************************)
(* Properties.                                                             *)
(***************************************************************************)
\* Type invariant of the files, the hub's view and the two threads.
TypeOK ==
    /\ bundle \subseteq Names
    /\ receipt \subseteq bundle
    /\ config \in [Names -> BOOLEAN]
    /\ intents \in [Names -> Intents]
    /\ registry \in [Names -> Entries \cup {Nil}]
    /\ hub \in [Names -> Entries \cup {Nil}]
    /\ initialized \in BOOLEAN
    /\ reconciled \in BOOLEAN
    /\ loop \in [op : {"idle", "install", "delete", "update", "rollback"},
                 stage : {"idle", "runtime", "upsert", "receipt", "reload", "remove",
                          "clean_registry", "apply", "done", "failed"},
                 name : Names \cup {Nil}, want : Entries \cup {Nil}, undo : BOOLEAN]
    /\ worker \in [stage : {"idle", "walk", "write"}, snap : [Names -> Entries \cup {Nil}],
                   left : SUBSET Names, name : Names \cup {Nil},
                   entry : Entries \cup {Nil}]
    /\ faults \subseteq {"cleanup", "restore", "race", "crash", "hand", "meanwhile"}

\* The states _cleanup_failed_install() forbids: neither the registry nor the
\* hub points to a bundle that is gone, unless somebody removed it by hand.
NothingPointsToMissingBundle ==
    "hand" \in faults \/
    \A n \in Names : registry[n] # Nil \/ hub[n] # Nil => n \in bundle

\* A request that goes on to report success left registry, hub and bundle as
\* it says (the health check an install awaits after that changes nothing).
SuccessIsConfirmed ==
    loop.stage = "done" /\ "hand" \notin faults =>
        /\ registry[loop.name] = loop.want
        /\ hub[loop.name] = loop.want
        /\ loop.name \in bundle <=> loop.want # Nil
        /\ loop.op = "install" => Owned(loop.name)

\* Manifest and registry agree on what is enabled whenever no request is
\* under way: a registry write that fails takes the manifest back with it.
\* What is left is a manifest that could not be written back either, a process
\* that died inside a request, and a reconciliation that wrote back an entry
\* it had read before the request changed it.
ConfigMatchesRegistry ==
    loop.op = "idle" /\ faults \cap {"crash", "race", "hand", "restore"} = {} =>
        \A n \in bundle : registry[n] # Nil => registry[n].on = config[n]

\* A bundle the installer neither lists nor owns can be neither installed
\* again (409) nor deleted (403).  A failed install alone never leaves one:
\* it takes a crash, or a removal that fails as well.
StrandedNeedsFault ==
    loop.op = "idle" /\ (\E n \in bundle : registry[n] = Nil /\ n \notin receipt) =>
        faults \cap {"crash", "cleanup"} # {}

\* What initialize() publishes is what the bundles say, if neither a request
\* nor anybody else changed them meanwhile: no managed entry without its
\* bundle, and no mirror but the one of the bundle's own file, none when that
\* file is bad.
StartRepairs ==
    [][~reconciled /\ reconciled' /\ loop.op = "idle" /\ "meanwhile" \notin faults =>
        \A n \in Names : hub'[n] # Nil /\ hub'[n].managed =>
            /\ n \in bundle
            /\ hub'[n].mirror = IF intents[n] = "bad" THEN "none" ELSE intents[n]]_vars

\* The reconciliation removes no entry whose bundle is there by then.
ReconcileKeepsBundles ==
    [][worker.stage = "write" /\ worker.entry = Nil /\ worker' # Asleep =>
        worker.name \notin bundle]_vars

=============================================================================
