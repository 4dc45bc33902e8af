------------------------- MODULE McpInstallerProofs -------------------------
(***************************************************************************)
(* Safety of the installer, for any bundles and with every stage of every  *)
(* route failing, crashes and edits from outside: nothing points to a      *)
(* bundle that is gone, a reported success is true, manifest and registry  *)
(* agree, an install strands no bundle, the reconciliation removes no      *)
(* entry whose bundle is there, and what a start publishes says what the   *)
(* bundles say.                                                            *)
(*                                                                         *)
(* The argument: a route keeps its bundle until the hub has published its  *)
(* result (HandlerKeepsBundle, ResultIsPublished), and from then on no     *)
(* worker reconciles (WorkerAlone).  A worker that reconciles keeps the    *)
(* reloads waiting, so an entry it has still to look at is not removed     *)
(* behind its back but by a route that waits for it (EntriesAhead), and    *)
(* what it is about to write fits the bundle (WriteFits).  What it has     *)
(* settled stays so until it publishes (RepairsAhead).                     *)
(***************************************************************************)
EXTENDS McpInstaller, TLAPS

(***************************************************************************)
(* The invariant.                                                          *)
(***************************************************************************)
\* The stages of each operation, and what it wants to see published.
HandlerInPlace ==
    /\ loop.op = "idle" <=> loop.stage = "idle"
    /\ loop.op # "idle" => loop.name \in Names
    /\ loop.stage \in {"runtime", "upsert", "receipt", "clean_registry"} =>
          loop.op = "install"
    /\ loop.stage = "apply" => loop.op = "update"
    /\ loop.stage = "remove" => loop.op \in {"delete", "rollback"}
    /\ loop.op \in {"install", "update"} => loop.want # Nil
    /\ loop.op \in {"delete", "rollback"} => loop.want = Nil

\* A route keeps its bundle until it is done.
HandlerKeepsBundle ==
    /\ loop.op # "idle" /\ loop.stage # "done" => loop.name \in bundle
    /\ loop.stage = "done" => (loop.name \in bundle <=> loop.want # Nil)
    /\ loop.op = "install" /\ loop.stage \in {"reload", "done"} => loop.name \in receipt

\* A bundle is removed, and a success reported, after the hub published it.
ResultIsPublished ==
    loop.stage \in {"remove", "done"} =>
        /\ initialized
        /\ registry[loop.name] = loop.want
        /\ hub[loop.name] = loop.want

\* The reconciliation belongs to a hub that is not initialized.
WorkerAlone == worker.stage # "idle" => ~initialized

\* The worker walks over entries of its snapshot; one it has still to look at
\* is removed only by a route that now waits for the worker.
EntriesAhead ==
    \A n \in worker.left :
        /\ worker.snap[n] # Nil
        /\ worker.stage # "idle" /\ registry[n] = Nil =>
              loop.stage = "reload" /\ loop.name = n

\* What the worker is about to write fits the bundle.
WriteFits ==
    worker.stage = "write" =>
        /\ worker.name \in Names \ worker.left
        /\ worker.snap[worker.name] # Nil
        /\ worker.entry = Nil => worker.name \notin bundle /\ registry[worker.name] # Nil
        /\ worker.entry # Nil =>
              /\ worker.entry.on = worker.snap[worker.name].on
              /\ "hand" \in faults \/ worker.name \in bundle

\* Manifest and registry agree but for the update in progress, which knows
\* what to restore.
ConfigAgrees ==
    faults \cap {"crash", "race", "hand", "restore"} = {} =>
        /\ \A n \in bundle : registry[n] # Nil =>
              registry[n].on = config[n] \/ (loop.stage = "apply" /\ loop.name = n)
        /\ loop.stage \in {"runtime", "upsert", "apply"} => loop.want.on = config[loop.name]
        /\ loop.stage = "apply" /\ registry[loop.name] # Nil =>
              registry[loop.name].on = loop.undo

\* A bundle without entry and receipt is the one of the install in progress.
OnlyInstallStrands ==
    faults \cap {"crash", "cleanup"} = {} =>
        \A n \in bundle : registry[n] = Nil /\ n \notin receipt =>
            /\ loop.op \in {"install", "rollback"}
            /\ loop.stage \notin {"done", "failed"}
            /\ loop.name = n

IInv ==
    /\ TypeOK
    /\ HandlerInPlace
    /\ HandlerKeepsBundle
    /\ ResultIsPublished
    /\ WorkerAlone
    /\ EntriesAhead
    /\ WriteFits
    /\ NothingPointsToMissingBundle
    /\ ConfigAgrees
    /\ OnlyInstallStrands

(***************************************************************************)
(* What the operators give, and what two of the routes write.              *)
(***************************************************************************)
\* What the routes write is an entry.
LEMMA EntryIsEntry ==
    \A on \in BOOLEAN, mirror \in Mirrors :
        /\ Entry(on, mirror) \in Entries
        /\ Entry(on, mirror) # Nil
        /\ Entry(on, mirror).on = on
<1>1. ASSUME NEW on \in BOOLEAN, NEW mirror \in Mirrors
      PROVE  Entry(on, mirror) \in Entries /\ Entry(on, mirror).on = on
    BY DEF Entry, Entries
<1> QED BY <1>1, InstallerAssumption

\* A failed install turns into its rollback, or ends when that is impossible.
LEMMA CleanupLoop ==
  ASSUME TypeOK, CleanupRemovesEntry
  PROVE  /\ loop.stage = "clean_registry"
         /\ \/ /\ registry' = [registry EXCEPT ![loop.name] = Nil]
               /\ loop' = [op |-> "rollback", stage |-> "reload", name |-> loop.name,
                           want |-> Nil, undo |-> loop.undo]
               /\ UNCHANGED faults
            \/ /\ loop' = [loop EXCEPT !.stage = "failed"]
               /\ faults' = faults \cup {"cleanup"}
               /\ UNCHANGED registry
         /\ UNCHANGED <<bundle, receipt, config, intents, hub, initialized, reconciled,
                        worker>>
<1>1. /\ loop.stage = "clean_registry"
      /\ UNCHANGED <<bundle, receipt, config, intents, hub, initialized, reconciled,
                     worker>>
  BY DEF CleanupRemovesEntry, files, hubVars
<1>2. ASSUME NEW l, l = [loop EXCEPT !.op = "rollback", !.stage = "reload", !.want = Nil]
      PROVE l = [op |-> "rollback", stage |-> "reload", name |-> loop.name,
                           want |-> Nil, undo |-> loop.undo]
  BY <1>2 DEF TypeOK
<1> QED BY <1>1, <1>2 DEF CleanupRemovesEntry, Goto

\* A delete is refused, ends when the registry cannot be written, or reloads.
LEMMA DeleteLoop ==
  ASSUME DeleteRemovesEntry
  PROVE  /\ loop.op = "idle"
         /\ \E n \in Names :
              /\ n \in bundle /\ n \in receipt
              /\ \/ /\ registry' = [registry EXCEPT ![n] = Nil]
                    /\ loop' = [op |-> "delete", stage |-> "reload", name |-> n,
                                want |-> Nil, undo |-> FALSE]
                 \/ /\ loop' = [op |-> "delete", stage |-> "failed", name |-> n,
                                want |-> Nil, undo |-> FALSE]
                    /\ UNCHANGED registry
         /\ UNCHANGED <<bundle, receipt, config, intents, hub, initialized, reconciled,
                        worker, faults>>
<1>1. ASSUME NEW n, NEW s, NEW l, l = [Idle EXCEPT !.op = "delete", !.stage = s, !.name = n]
      PROVE  l = [op |-> "delete", stage |-> s, name |-> n, want |-> Nil, undo |-> FALSE]
    BY <1>1 DEF Idle
<1> QED BY <1>1 DEF DeleteRemovesEntry, Owned, files, hubVars

\* An update that is not refused has a mirror to preserve.
LEMMA PreservedIsMirror ==
  ASSUME TypeOK, NEW n \in Names, intents[n] # "bad"
  PROVE  Preserved(n) \in Mirrors
  BY DEF TypeOK, Preserved, Intents, Entries, Mirrors

(***************************************************************************)
(* The types.                                                              *)
(***************************************************************************)
\* The initial states have their types.
LEMMA TypeInit == Init => TypeOK
<1> SUFFICES ASSUME Init PROVE TypeOK
  OBVIOUS
<1>1. /\ bundle \subseteq Names
      /\ receipt \subseteq bundle
      /\ registry \in [Names -> Entries \cup {Nil}]
  BY DEF Init, Entries, Mirrors
<1>2. /\ config \in [Names -> BOOLEAN]
      /\ intents \in [Names -> Intents]
      /\ hub \in [Names -> Entries \cup {Nil}]
  BY DEF Init, NoView, Intents, Mirrors
<1>3. loop \in [op : {"idle", "install", "delete", "update", "rollback"},
                 stage : {"idle", "runtime", "upsert", "receipt", "reload", "remove",
                          "clean_registry", "apply", "done", "failed"},
                 name : Names \cup {Nil}, want : Entries \cup {Nil}, undo : BOOLEAN]
  BY DEF Init, Idle
<1>4. worker \in [stage : {"idle", "walk", "write"}, snap : [Names -> Entries \cup {Nil}],
                   left : SUBSET Names, name : Names \cup {Nil},
                   entry : Entries \cup {Nil}]
  BY DEF Init, Asleep
<1> QED BY <1>1, <1>2, <1>3, <1>4 DEF Init, TypeOK

\* Every step keeps the types.
LEMMA TypeStep ==
  ASSUME TypeOK, HandlerInPlace, HandlerKeepsBundle, EntriesAhead, WriteFits,
     [Next]_vars
  PROVE  TypeOK'
<1>1. CASE InstallMoves
    BY <1>1 DEF TypeOK, Entries, Intents, Mirrors, HandlerInPlace, InstallMoves,
       Entry, hubVars
<1>2. CASE PrepareRuntime
    BY <1>2 DEF TypeOK, Entries, Intents, Mirrors, HandlerInPlace, PrepareRuntime,
       Goto, files, hubVars
<1>3. CASE InstallUpserts
    BY <1>3 DEF TypeOK, Entries, Intents, Mirrors, HandlerInPlace, InstallUpserts,
       Goto, files, hubVars
<1>4. CASE WriteReceipt
    BY <1>4 DEF TypeOK, Entries, Intents, Mirrors, HandlerInPlace, HandlerKeepsBundle,
       WriteReceipt, Goto, hubVars
<1>5. CASE CleanupRemovesEntry
    BY <1>5, CleanupLoop DEF TypeOK, Entries, Intents, Mirrors, HandlerInPlace
<1>6. CASE DeleteRemovesEntry
  <2>1. PICK n \in Names :
           /\ registry' \in {registry, [registry EXCEPT ![n] = Nil]}
           /\ \E s \in {"reload", "failed"} :
                 loop' = [op |-> "delete", stage |-> s, name |-> n, want |-> Nil,
                          undo |-> FALSE]
      BY <1>6, DeleteLoop
  <2>2. UNCHANGED <<bundle, receipt, config, intents, hub, initialized, reconciled,
                    worker, faults>>
      BY <1>6, DeleteLoop
  <2>3. registry' \in [Names -> Entries \cup {Nil}]
      BY <2>1 DEF TypeOK
  <2> QED BY <2>1, <2>2, <2>3 DEF TypeOK
<1>7. CASE UpdateSaves
    BY <1>7 DEF TypeOK, Entries, Intents, Mirrors, HandlerInPlace, UpdateSaves,
       Preserved, Entry, hubVars
<1>8. CASE UpdateUpserts
    BY <1>8 DEF TypeOK, Entries, Intents, Mirrors, HandlerInPlace, UpdateUpserts,
       Goto, hubVars
<1>9. CASE Reload
  <2>1. loop.op # "idle"
      BY <1>9 DEF Reload, HandlerInPlace
  <2>2. Confirmed[loop.op] \in {"done", "remove"}
      BY <2>1 DEF TypeOK, Confirmed
  <2>3. ReloadFails[loop.op] \in {"clean_registry", "failed"}
      BY <2>1 DEF TypeOK, ReloadFails
  <2>4. PICK s \in {"done", "remove", "clean_registry", "failed"} :
           loop' = [loop EXCEPT !.stage = s]
      BY <1>9, <2>2, <2>3 DEF Reload, Goto
  <2>5. hub' \in {hub, registry} /\ initialized' \in {initialized, TRUE}
      BY <1>9 DEF Reload
  <2>6. faults' \in {faults, faults \cup {"cleanup"}}
      BY <1>9 DEF Reload
  <2>7. UNCHANGED <<bundle, receipt, config, intents, registry, reconciled, worker>>
      BY <1>9 DEF Reload, files
  <2> QED BY <2>4, <2>5, <2>6, <2>7 DEF TypeOK
<1>10. CASE RemoveTree
    BY <1>10 DEF TypeOK, Entries, Intents, Mirrors, HandlerInPlace, RemoveTree, Goto,
       hubVars
<1>11. CASE Answer
    BY <1>11 DEF TypeOK, Entries, Intents, Mirrors, HandlerInPlace, Answer, Idle,
       files, hubVars
<1>12. CASE Refresh
    BY <1>12 DEF TypeOK, Entries, Intents, Mirrors, HandlerInPlace, Refresh, HubFree,
       files
<1>13. CASE WorkerReads
    BY <1>13 DEF TypeOK, Entries, Intents, Mirrors, HandlerInPlace, WorkerReads,
       files, hubVars
<1>14. CASE WorkerWrites
  <2>1. registry' \in [Names -> Entries \cup {Nil}]
      BY <1>14 DEF TypeOK, WorkerWrites
  <2>2. worker' \in [stage : {"idle", "walk", "write"},
                     snap : [Names -> Entries \cup {Nil}],
                     left : SUBSET Names, name : Names \cup {Nil},
                     entry : Entries \cup {Nil}]
      BY <1>14 DEF TypeOK, WorkerWrites
  <2> QED BY <1>14, <2>1, <2>2 DEF TypeOK, WorkerWrites, files, hubVars
<1>15. CASE WorkerFails
    BY <1>15 DEF TypeOK, Entries, Intents, Mirrors, HandlerInPlace, WorkerFails,
       Asleep, files, hubVars
<1>16. CASE WorkerPublishes
    BY <1>16 DEF TypeOK, Entries, Intents, Mirrors, HandlerInPlace, WorkerPublishes,
       Asleep, files
<1>17. CASE Crash
    BY <1>17 DEF TypeOK, Entries, Intents, Mirrors, HandlerInPlace, Crash, Idle,
       Asleep, NoView, files
<1>18. ASSUME NEW n \in Names, WorkerExamines(n)
      PROVE  TypeOK'
  <2>1. worker.snap[n] # Nil
      BY <1>18 DEF WorkerExamines, EntriesAhead
  <2>2. FreshMirror(n) \in Mirrors
      BY DEF FreshMirror, Mirrors
  <2>3. worker.snap[n].on \in BOOLEAN
      BY <2>1 DEF TypeOK, Entries
  <2>4. Repaired(n) \in Entries \cup {Nil}
      BY <2>2, <2>3, EntryIsEntry DEF Repaired
  <2>5. worker' \in [stage : {"idle", "walk", "write"},
                     snap : [Names -> Entries \cup {Nil}],
                     left : SUBSET Names, name : Names \cup {Nil},
                     entry : Entries \cup {Nil}]
      BY <1>18, <2>4 DEF WorkerExamines, TypeOK
  <2> QED BY <1>18, <2>5 DEF WorkerExamines, TypeOK, files, hubVars
<1>19. ASSUME NEW n \in Names, EditIntents(n)
      PROVE  TypeOK'
    BY <1>19 DEF TypeOK, Entries, Intents, Mirrors, HandlerInPlace, EditIntents,
       Meanwhile, hubVars
<1>20. ASSUME NEW n \in Names, RemoveByHand(n)
      PROVE  TypeOK'
    BY <1>20 DEF TypeOK, Entries, Intents, Mirrors, HandlerInPlace, RemoveByHand,
       Meanwhile, hubVars
<1>21. CASE UNCHANGED vars
    BY <1>21 DEF TypeOK, Entries, Intents, Mirrors, HandlerInPlace, vars, files,
       hubVars
<1> QED
    BY <1>1, <1>2, <1>3, <1>4, <1>5, <1>6, <1>7, <1>8, <1>9, <1>10, <1>11, <1>12,
       <1>13, <1>14, <1>15, <1>16, <1>17, <1>18, <1>19, <1>20, <1>21 DEF Next

(***************************************************************************)
(* The route in progress.                                                  *)
(***************************************************************************)
\* No route is in progress at the start.
LEMMA HandlerInit == Init => HandlerInPlace /\ HandlerKeepsBundle
  BY InstallerAssumption DEF Init, HandlerInPlace, HandlerKeepsBundle, Idle

\* Each stage is followed by the stages its operation has.
LEMMA HandlerInPlaceStep ==
  ASSUME TypeOK, HandlerInPlace, [Next]_vars
  PROVE  HandlerInPlace'
<1>1. CASE InstallMoves
  <2>1. PICK n \in Names, on \in BOOLEAN, file \in {"none", "v1"} :
           loop' = [op |-> "install", stage |-> "runtime", name |-> n,
                    want |-> Entry(on, file), undo |-> FALSE]
      BY <1>1 DEF InstallMoves
  <2>2. Entry(on, file) # Nil
      BY EntryIsEntry DEF Mirrors
  <2> QED BY <2>1, <2>2 DEF HandlerInPlace
<1>2. CASE PrepareRuntime
    BY <1>2, InstallerAssumption DEF TypeOK, HandlerInPlace, PrepareRuntime, Goto,
       files, hubVars
<1>3. CASE InstallUpserts
    BY <1>3, InstallerAssumption DEF TypeOK, HandlerInPlace, InstallUpserts, Goto,
       files, hubVars
<1>4. CASE WriteReceipt
    BY <1>4, InstallerAssumption DEF TypeOK, HandlerInPlace, WriteReceipt, Goto,
       hubVars
<1>5. CASE CleanupRemovesEntry
    BY <1>5, CleanupLoop, InstallerAssumption DEF TypeOK, HandlerInPlace
<1>6. CASE DeleteRemovesEntry
    BY <1>6, DeleteLoop, InstallerAssumption DEF TypeOK, HandlerInPlace
<1>7. CASE UpdateSaves
  <2>1. PICK n \in bundle, on \in BOOLEAN :
           /\ intents[n] # "bad"
           /\ loop' = [op |-> "update", stage |-> "apply", name |-> n,
                       want |-> Entry(on, Preserved(n)), undo |-> config[n]]
      BY <1>7 DEF UpdateSaves
  <2>2. n \in Names
      BY DEF TypeOK
  <2>3. Entry(on, Preserved(n)) # Nil
      BY <2>1, <2>2, EntryIsEntry, PreservedIsMirror
  <2> QED BY <2>1, <2>2, <2>3 DEF HandlerInPlace
<1>8. CASE UpdateUpserts
    BY <1>8, InstallerAssumption DEF TypeOK, HandlerInPlace, UpdateUpserts, Goto,
       hubVars
<1>9. CASE Reload
    BY <1>9, InstallerAssumption DEF TypeOK, HandlerInPlace, Reload, Goto,
       ReloadFails, Confirmed, HubFree, files
<1>10. CASE RemoveTree
    BY <1>10, InstallerAssumption DEF TypeOK, HandlerInPlace, RemoveTree, Goto,
       hubVars
<1>11. CASE Answer
    BY <1>11, InstallerAssumption DEF TypeOK, HandlerInPlace, Answer, Idle, files,
       hubVars
<1>12. CASE Refresh
    BY <1>12, InstallerAssumption DEF TypeOK, HandlerInPlace, Refresh, HubFree, files
<1>13. CASE WorkerReads
    BY <1>13, InstallerAssumption DEF TypeOK, HandlerInPlace, WorkerReads, files,
       hubVars
<1>14. CASE WorkerWrites
    BY <1>14, InstallerAssumption DEF TypeOK, HandlerInPlace, WorkerWrites, files,
       hubVars
<1>15. CASE WorkerFails
    BY <1>15, InstallerAssumption DEF TypeOK, HandlerInPlace, WorkerFails, Asleep,
       files, hubVars
<1>16. CASE WorkerPublishes
    BY <1>16, InstallerAssumption DEF TypeOK, HandlerInPlace, WorkerPublishes, Asleep,
       files
<1>17. CASE Crash
    BY <1>17, InstallerAssumption DEF TypeOK, HandlerInPlace, Crash, Idle, Asleep,
       NoView, files
<1>18. ASSUME NEW n \in Names, WorkerExamines(n)
      PROVE  HandlerInPlace'
    BY <1>18, InstallerAssumption DEF TypeOK, HandlerInPlace, WorkerExamines, Owned,
       Entry, FreshMirror, Repaired, files, hubVars
<1>19. ASSUME NEW n \in Names, EditIntents(n)
      PROVE  HandlerInPlace'
    BY <1>19, InstallerAssumption DEF TypeOK, HandlerInPlace, EditIntents, Meanwhile,
       hubVars
<1>20. ASSUME NEW n \in Names, RemoveByHand(n)
      PROVE  HandlerInPlace'
    BY <1>20, InstallerAssumption DEF TypeOK, HandlerInPlace, RemoveByHand, Meanwhile,
       hubVars
<1>21. CASE UNCHANGED vars
    BY <1>21, InstallerAssumption DEF TypeOK, HandlerInPlace, vars, files, hubVars
<1> QED
    BY <1>1, <1>2, <1>3, <1>4, <1>5, <1>6, <1>7, <1>8, <1>9, <1>10, <1>11, <1>12,
       <1>13, <1>14, <1>15, <1>16, <1>17, <1>18, <1>19, <1>20, <1>21 DEF Next

\* Only the removal at its end, or somebody's hand, removes a bundle.
LEMMA HandlerKeepsBundleStep ==
  ASSUME TypeOK, HandlerInPlace, HandlerKeepsBundle, ResultIsPublished, [Next]_vars
  PROVE  HandlerKeepsBundle'
<1>1. CASE InstallMoves
    BY <1>1, InstallerAssumption DEF TypeOK, HandlerInPlace, HandlerKeepsBundle,
       ResultIsPublished, InstallMoves, Entry, hubVars
<1>2. CASE PrepareRuntime
    BY <1>2, InstallerAssumption DEF TypeOK, HandlerInPlace, HandlerKeepsBundle,
       ResultIsPublished, PrepareRuntime, Goto, files, hubVars
<1>3. CASE InstallUpserts
    BY <1>3, InstallerAssumption DEF TypeOK, HandlerInPlace, HandlerKeepsBundle,
       ResultIsPublished, InstallUpserts, Goto, files, hubVars
<1>4. CASE WriteReceipt
    BY <1>4, InstallerAssumption DEF TypeOK, HandlerInPlace, HandlerKeepsBundle,
       ResultIsPublished, WriteReceipt, Goto, hubVars
<1>5. CASE CleanupRemovesEntry
    BY <1>5, CleanupLoop, InstallerAssumption DEF TypeOK, HandlerInPlace,
       HandlerKeepsBundle, ResultIsPublished
<1>6. CASE DeleteRemovesEntry
    BY <1>6, DeleteLoop, InstallerAssumption DEF TypeOK, HandlerInPlace,
       HandlerKeepsBundle, ResultIsPublished
<1>7. CASE UpdateSaves
    BY <1>7, InstallerAssumption DEF TypeOK, HandlerInPlace, HandlerKeepsBundle,
       ResultIsPublished, UpdateSaves, Preserved, Entry, hubVars
<1>8. CASE UpdateUpserts
    BY <1>8, InstallerAssumption DEF TypeOK, HandlerInPlace, HandlerKeepsBundle,
       ResultIsPublished, UpdateUpserts, Goto, hubVars
<1>9. CASE Reload
    BY <1>9, InstallerAssumption DEF TypeOK, HandlerInPlace, HandlerKeepsBundle,
       ResultIsPublished, Reload, Goto, ReloadFails, Confirmed, HubFree, files
<1>10. CASE RemoveTree
    BY <1>10, InstallerAssumption DEF TypeOK, HandlerInPlace, HandlerKeepsBundle,
       ResultIsPublished, RemoveTree, Goto, hubVars
<1>11. CASE Answer
    BY <1>11, InstallerAssumption DEF TypeOK, HandlerInPlace, HandlerKeepsBundle,
       ResultIsPublished, Answer, Idle, files, hubVars
<1>12. CASE Refresh
    BY <1>12, InstallerAssumption DEF TypeOK, HandlerInPlace, HandlerKeepsBundle,
       ResultIsPublished, Refresh, HubFree, files
<1>13. CASE WorkerReads
    BY <1>13, InstallerAssumption DEF TypeOK, HandlerInPlace, HandlerKeepsBundle,
       ResultIsPublished, WorkerReads, files, hubVars
<1>14. CASE WorkerWrites
    BY <1>14, InstallerAssumption DEF TypeOK, HandlerInPlace, HandlerKeepsBundle,
       ResultIsPublished, WorkerWrites, files, hubVars
<1>15. CASE WorkerFails
    BY <1>15, InstallerAssumption DEF TypeOK, HandlerInPlace, HandlerKeepsBundle,
       ResultIsPublished, WorkerFails, Asleep, files, hubVars
<1>16. CASE WorkerPublishes
    BY <1>16, InstallerAssumption DEF TypeOK, HandlerInPlace, HandlerKeepsBundle,
       ResultIsPublished, WorkerPublishes, Asleep, files
<1>17. CASE Crash
    BY <1>17, InstallerAssumption DEF TypeOK, HandlerInPlace, HandlerKeepsBundle,
       ResultIsPublished, Crash, Idle, Asleep, NoView, files
<1>18. ASSUME NEW n \in Names, WorkerExamines(n)
      PROVE  HandlerKeepsBundle'
    BY <1>18, InstallerAssumption DEF TypeOK, HandlerInPlace, HandlerKeepsBundle,
       ResultIsPublished, WorkerExamines, Owned, Entry, FreshMirror, Repaired, files,
       hubVars
<1>19. ASSUME NEW n \in Names, EditIntents(n)
      PROVE  HandlerKeepsBundle'
    BY <1>19, InstallerAssumption DEF TypeOK, HandlerInPlace, HandlerKeepsBundle,
       ResultIsPublished, EditIntents, Meanwhile, hubVars
<1>20. ASSUME NEW n \in Names, RemoveByHand(n)
      PROVE  HandlerKeepsBundle'
    BY <1>20, InstallerAssumption DEF TypeOK, HandlerInPlace, HandlerKeepsBundle,
       ResultIsPublished, RemoveByHand, Meanwhile, hubVars
<1>21. CASE UNCHANGED vars
    BY <1>21, InstallerAssumption DEF TypeOK, HandlerInPlace, HandlerKeepsBundle,
       ResultIsPublished, vars, files, hubVars
<1> QED
    BY <1>1, <1>2, <1>3, <1>4, <1>5, <1>6, <1>7, <1>8, <1>9, <1>10, <1>11, <1>12,
       <1>13, <1>14, <1>15, <1>16, <1>17, <1>18, <1>19, <1>20, <1>21 DEF Next

(***************************************************************************)
(* Route and worker.                                                       *)
(***************************************************************************)
\* Nothing is published or reconciled at the start.
LEMMA PublishedInit == Init => ResultIsPublished /\ WorkerAlone
  BY DEF Init, ResultIsPublished, WorkerAlone, Idle, Asleep

\* The result is compared with the published view, and nobody changes it then.
LEMMA ResultIsPublishedStep ==
  ASSUME TypeOK, HandlerInPlace, ResultIsPublished, WorkerAlone, [Next]_vars
  PROVE  ResultIsPublished'
<1>1. CASE InstallMoves
    BY <1>1 DEF TypeOK, HandlerInPlace, ResultIsPublished, WorkerAlone, InstallMoves,
       Entry, hubVars
<1>2. CASE PrepareRuntime
    BY <1>2 DEF TypeOK, HandlerInPlace, ResultIsPublished, WorkerAlone,
       PrepareRuntime, Goto, files, hubVars
<1>3. CASE InstallUpserts
    BY <1>3 DEF TypeOK, HandlerInPlace, ResultIsPublished, WorkerAlone,
       InstallUpserts, Goto, files, hubVars
<1>4. CASE WriteReceipt
    BY <1>4 DEF TypeOK, HandlerInPlace, ResultIsPublished, WorkerAlone, WriteReceipt,
       Goto, hubVars
<1>5. CASE CleanupRemovesEntry
    BY <1>5, CleanupLoop DEF TypeOK, HandlerInPlace, ResultIsPublished, WorkerAlone
<1>6. CASE DeleteRemovesEntry
    BY <1>6, DeleteLoop DEF TypeOK, HandlerInPlace, ResultIsPublished, WorkerAlone
<1>7. CASE UpdateSaves
    BY <1>7 DEF TypeOK, HandlerInPlace, ResultIsPublished, WorkerAlone, UpdateSaves,
       Preserved, Entry, hubVars
<1>8. CASE UpdateUpserts
    BY <1>8 DEF TypeOK, HandlerInPlace, ResultIsPublished, WorkerAlone, UpdateUpserts,
       Goto, hubVars
<1>9. CASE Reload
    BY <1>9 DEF TypeOK, HandlerInPlace, ResultIsPublished, WorkerAlone, Reload, Goto,
       ReloadFails, Confirmed, HubFree, files
<1>10. CASE RemoveTree
    BY <1>10 DEF TypeOK, HandlerInPlace, ResultIsPublished, WorkerAlone, RemoveTree,
       Goto, hubVars
<1>11. CASE Answer
    BY <1>11 DEF TypeOK, HandlerInPlace, ResultIsPublished, WorkerAlone, Answer, Idle,
       files, hubVars
<1>12. CASE Refresh
    BY <1>12 DEF TypeOK, HandlerInPlace, ResultIsPublished, WorkerAlone, Refresh,
       HubFree, files
<1>13. CASE WorkerReads
    BY <1>13 DEF TypeOK, HandlerInPlace, ResultIsPublished, WorkerAlone, WorkerReads,
       files, hubVars
<1>14. CASE WorkerWrites
    BY <1>14 DEF TypeOK, HandlerInPlace, ResultIsPublished, WorkerAlone, WorkerWrites,
       files, hubVars
<1>15. CASE WorkerFails
    BY <1>15 DEF TypeOK, HandlerInPlace, ResultIsPublished, WorkerAlone, WorkerFails,
       Asleep, files, hubVars
<1>16. CASE WorkerPublishes
    BY <1>16 DEF TypeOK, HandlerInPlace, ResultIsPublished, WorkerAlone,
       WorkerPublishes, Asleep, files
<1>17. CASE Crash
    BY <1>17 DEF TypeOK, HandlerInPlace, ResultIsPublished, WorkerAlone, Crash, Idle,
       Asleep, NoView, files
<1>18. ASSUME NEW n \in Names, WorkerExamines(n)
      PROVE  ResultIsPublished'
    BY <1>18 DEF TypeOK, HandlerInPlace, ResultIsPublished, WorkerAlone,
       WorkerExamines, Owned, Entry, FreshMirror, Repaired, files, hubVars
<1>19. ASSUME NEW n \in Names, EditIntents(n)
      PROVE  ResultIsPublished'
    BY <1>19 DEF TypeOK, HandlerInPlace, ResultIsPublished, WorkerAlone, EditIntents,
       Meanwhile, hubVars
<1>20. ASSUME NEW n \in Names, RemoveByHand(n)
      PROVE  ResultIsPublished'
    BY <1>20 DEF TypeOK, HandlerInPlace, ResultIsPublished, WorkerAlone, RemoveByHand,
       Meanwhile, hubVars
<1>21. CASE UNCHANGED vars
    BY <1>21 DEF TypeOK, HandlerInPlace, ResultIsPublished, WorkerAlone, vars, files,
       hubVars
<1> QED
    BY <1>1, <1>2, <1>3, <1>4, <1>5, <1>6, <1>7, <1>8, <1>9, <1>10, <1>11, <1>12,
       <1>13, <1>14, <1>15, <1>16, <1>17, <1>18, <1>19, <1>20, <1>21 DEF Next

\* A reload waits for the worker, and marks the hub initialized.
LEMMA WorkerAloneStep ==
  ASSUME TypeOK, WorkerAlone, [Next]_vars
  PROVE  WorkerAlone'
<1>1. CASE InstallMoves
    BY <1>1 DEF TypeOK, WorkerAlone, InstallMoves, Entry, hubVars
<1>2. CASE PrepareRuntime
    BY <1>2 DEF TypeOK, WorkerAlone, PrepareRuntime, Goto, files, hubVars
<1>3. CASE InstallUpserts
    BY <1>3 DEF TypeOK, WorkerAlone, InstallUpserts, Goto, files, hubVars
<1>4. CASE WriteReceipt
    BY <1>4 DEF TypeOK, WorkerAlone, WriteReceipt, Goto, hubVars
<1>5. CASE CleanupRemovesEntry
    BY <1>5, CleanupLoop DEF TypeOK, WorkerAlone
<1>6. CASE DeleteRemovesEntry
    BY <1>6, DeleteLoop DEF TypeOK, WorkerAlone
<1>7. CASE UpdateSaves
    BY <1>7 DEF TypeOK, WorkerAlone, UpdateSaves, Preserved, Entry, hubVars
<1>8. CASE UpdateUpserts
    BY <1>8 DEF TypeOK, WorkerAlone, UpdateUpserts, Goto, hubVars
<1>9. CASE Reload
    BY <1>9 DEF TypeOK, WorkerAlone, Reload, Goto, ReloadFails, Confirmed, HubFree,
       files
<1>10. CASE RemoveTree
    BY <1>10 DEF TypeOK, WorkerAlone, RemoveTree, Goto, hubVars
<1>11. CASE Answer
    BY <1>11 DEF TypeOK, WorkerAlone, Answer, Idle, files, hubVars
<1>12. CASE Refresh
    BY <1>12 DEF TypeOK, WorkerAlone, Refresh, HubFree, files
<1>13. CASE WorkerReads
    BY <1>13 DEF TypeOK, WorkerAlone, WorkerReads, files, hubVars
<1>14. CASE WorkerWrites
    BY <1>14 DEF TypeOK, WorkerAlone, WorkerWrites, files, hubVars
<1>15. CASE WorkerFails
    BY <1>15 DEF TypeOK, WorkerAlone, WorkerFails, Asleep, files, hubVars
<1>16. CASE WorkerPublishes
    BY <1>16 DEF TypeOK, WorkerAlone, WorkerPublishes, Asleep, files
<1>17. CASE Crash
    BY <1>17 DEF TypeOK, WorkerAlone, Crash, Idle, Asleep, NoView, files
<1>18. ASSUME NEW n \in Names, WorkerExamines(n)
      PROVE  WorkerAlone'
    BY <1>18 DEF TypeOK, WorkerAlone, WorkerExamines, Owned, Entry, FreshMirror,
       Repaired, files, hubVars
<1>19. ASSUME NEW n \in Names, EditIntents(n)
      PROVE  WorkerAlone'
    BY <1>19 DEF TypeOK, WorkerAlone, EditIntents, Meanwhile, hubVars
<1>20. ASSUME NEW n \in Names, RemoveByHand(n)
      PROVE  WorkerAlone'
    BY <1>20 DEF TypeOK, WorkerAlone, RemoveByHand, Meanwhile, hubVars
<1>21. CASE UNCHANGED vars
    BY <1>21 DEF TypeOK, WorkerAlone, vars, files, hubVars
<1> QED
    BY <1>1, <1>2, <1>3, <1>4, <1>5, <1>6, <1>7, <1>8, <1>9, <1>10, <1>11, <1>12,
       <1>13, <1>14, <1>15, <1>16, <1>17, <1>18, <1>19, <1>20, <1>21 DEF Next

\* No worker has anything ahead at the start.
LEMMA WorkerInit == Init => EntriesAhead /\ WriteFits
  BY DEF Init, EntriesAhead, WriteFits, Idle, Asleep

\* An entry the worker has still to look at stays, or its route waits.
LEMMA EntriesAheadStep ==
  ASSUME TypeOK, HandlerInPlace, EntriesAhead, WriteFits, [Next]_vars
  PROVE  EntriesAhead'
<1>1. CASE InstallMoves
    BY <1>1 DEF TypeOK, HandlerInPlace, EntriesAhead, WriteFits, InstallMoves, Entry,
       hubVars
<1>2. CASE PrepareRuntime
    BY <1>2 DEF TypeOK, HandlerInPlace, EntriesAhead, WriteFits, PrepareRuntime, Goto,
       files, hubVars
<1>3. CASE InstallUpserts
    BY <1>3 DEF TypeOK, HandlerInPlace, EntriesAhead, WriteFits, InstallUpserts, Goto,
       files, hubVars
<1>4. CASE WriteReceipt
    BY <1>4 DEF TypeOK, HandlerInPlace, EntriesAhead, WriteFits, WriteReceipt, Goto,
       hubVars
<1>5. CASE CleanupRemovesEntry
    BY <1>5, CleanupLoop DEF TypeOK, HandlerInPlace, EntriesAhead, WriteFits
<1>6. CASE DeleteRemovesEntry
    BY <1>6, DeleteLoop DEF TypeOK, HandlerInPlace, EntriesAhead, WriteFits
<1>7. CASE UpdateSaves
    BY <1>7 DEF TypeOK, HandlerInPlace, EntriesAhead, WriteFits, UpdateSaves,
       Preserved, Entry, hubVars
<1>8. CASE UpdateUpserts
    BY <1>8 DEF TypeOK, HandlerInPlace, EntriesAhead, WriteFits, UpdateUpserts, Goto,
       hubVars
<1>9. CASE Reload
    BY <1>9 DEF TypeOK, HandlerInPlace, EntriesAhead, WriteFits, Reload, Goto,
       ReloadFails, Confirmed, HubFree, files
<1>10. CASE RemoveTree
    BY <1>10 DEF TypeOK, HandlerInPlace, EntriesAhead, WriteFits, RemoveTree, Goto,
       hubVars
<1>11. CASE Answer
    BY <1>11 DEF TypeOK, HandlerInPlace, EntriesAhead, WriteFits, Answer, Idle, files,
       hubVars
<1>12. CASE Refresh
    BY <1>12 DEF TypeOK, HandlerInPlace, EntriesAhead, WriteFits, Refresh, HubFree,
       files
<1>13. CASE WorkerReads
    BY <1>13 DEF TypeOK, HandlerInPlace, EntriesAhead, WriteFits, WorkerReads, files,
       hubVars
<1>14. CASE WorkerWrites
    BY <1>14 DEF TypeOK, HandlerInPlace, EntriesAhead, WriteFits, WorkerWrites, files,
       hubVars
<1>15. CASE WorkerFails
    BY <1>15 DEF TypeOK, HandlerInPlace, EntriesAhead, WriteFits, WorkerFails, Asleep,
       files, hubVars
<1>16. CASE WorkerPublishes
    BY <1>16 DEF TypeOK, HandlerInPlace, EntriesAhead, WriteFits, WorkerPublishes,
       Asleep, files
<1>17. CASE Crash
    BY <1>17 DEF TypeOK, HandlerInPlace, EntriesAhead, WriteFits, Crash, Idle, Asleep,
       NoView, files
<1>18. ASSUME NEW n \in Names, WorkerExamines(n)
      PROVE  EntriesAhead'
    BY <1>18 DEF TypeOK, HandlerInPlace, EntriesAhead, WriteFits, WorkerExamines,
       Owned, Entry, FreshMirror, Repaired, files, hubVars
<1>19. ASSUME NEW n \in Names, EditIntents(n)
      PROVE  EntriesAhead'
    BY <1>19 DEF TypeOK, HandlerInPlace, EntriesAhead, WriteFits, EditIntents,
       Meanwhile, hubVars
<1>20. ASSUME NEW n \in Names, RemoveByHand(n)
      PROVE  EntriesAhead'
    BY <1>20 DEF TypeOK, HandlerInPlace, EntriesAhead, WriteFits, RemoveByHand,
       Meanwhile, hubVars
<1>21. CASE UNCHANGED vars
    BY <1>21 DEF TypeOK, HandlerInPlace, EntriesAhead, WriteFits, vars, files, hubVars
<1> QED
    BY <1>1, <1>2, <1>3, <1>4, <1>5, <1>6, <1>7, <1>8, <1>9, <1>10, <1>11, <1>12,
       <1>13, <1>14, <1>15, <1>16, <1>17, <1>18, <1>19, <1>20, <1>21 DEF Next

\* Between the worker's look at a bundle and its write, no route removes or
\* installs that bundle.
LEMMA WriteFitsStep ==
  ASSUME TypeOK, HandlerInPlace, HandlerKeepsBundle, ResultIsPublished, WorkerAlone,
     EntriesAhead, WriteFits, [Next]_vars
  PROVE  WriteFits'
<1>1. CASE InstallMoves
    BY <1>1, InstallerAssumption DEF TypeOK, HandlerInPlace, HandlerKeepsBundle,
       ResultIsPublished, WorkerAlone, EntriesAhead, WriteFits, InstallMoves, Entry,
       hubVars
<1>2. CASE PrepareRuntime
    BY <1>2, InstallerAssumption DEF TypeOK, HandlerInPlace, HandlerKeepsBundle,
       ResultIsPublished, WorkerAlone, EntriesAhead, WriteFits, PrepareRuntime, Goto,
       files, hubVars
<1>3. CASE InstallUpserts
    BY <1>3, InstallerAssumption DEF TypeOK, HandlerInPlace, HandlerKeepsBundle,
       ResultIsPublished, WorkerAlone, EntriesAhead, WriteFits, InstallUpserts, Goto,
       files, hubVars
<1>4. CASE WriteReceipt
    BY <1>4, InstallerAssumption DEF TypeOK, HandlerInPlace, HandlerKeepsBundle,
       ResultIsPublished, WorkerAlone, EntriesAhead, WriteFits, WriteReceipt, Goto,
       hubVars
<1>5. CASE CleanupRemovesEntry
    BY <1>5, CleanupLoop, InstallerAssumption DEF TypeOK, HandlerInPlace,
       HandlerKeepsBundle, ResultIsPublished, WorkerAlone, EntriesAhead, WriteFits
<1>6. CASE DeleteRemovesEntry
    BY <1>6, DeleteLoop, InstallerAssumption DEF TypeOK, HandlerInPlace,
       HandlerKeepsBundle, ResultIsPublished, WorkerAlone, EntriesAhead, WriteFits
<1>7. CASE UpdateSaves
    BY <1>7, InstallerAssumption DEF TypeOK, HandlerInPlace, HandlerKeepsBundle,
       ResultIsPublished, WorkerAlone, EntriesAhead, WriteFits, UpdateSaves,
       Preserved, Entry, hubVars
<1>8. CASE UpdateUpserts
    BY <1>8, InstallerAssumption DEF TypeOK, HandlerInPlace, HandlerKeepsBundle,
       ResultIsPublished, WorkerAlone, EntriesAhead, WriteFits, UpdateUpserts, Goto,
       hubVars
<1>9. CASE Reload
    BY <1>9, InstallerAssumption DEF TypeOK, HandlerInPlace, HandlerKeepsBundle,
       ResultIsPublished, WorkerAlone, EntriesAhead, WriteFits, Reload, Goto,
       ReloadFails, Confirmed, HubFree, files
<1>10. CASE RemoveTree
    BY <1>10, InstallerAssumption DEF TypeOK, HandlerInPlace, HandlerKeepsBundle,
       ResultIsPublished, WorkerAlone, EntriesAhead, WriteFits, RemoveTree, Goto,
       hubVars
<1>11. CASE Answer
    BY <1>11, InstallerAssumption DEF TypeOK, HandlerInPlace, HandlerKeepsBundle,
       ResultIsPublished, WorkerAlone, EntriesAhead, WriteFits, Answer, Idle, files,
       hubVars
<1>12. CASE Refresh
    BY <1>12, InstallerAssumption DEF TypeOK, HandlerInPlace, HandlerKeepsBundle,
       ResultIsPublished, WorkerAlone, EntriesAhead, WriteFits, Refresh, HubFree,
       files
<1>13. CASE WorkerReads
    BY <1>13, InstallerAssumption DEF TypeOK, HandlerInPlace, HandlerKeepsBundle,
       ResultIsPublished, WorkerAlone, EntriesAhead, WriteFits, WorkerReads, files,
       hubVars
<1>14. CASE WorkerWrites
    BY <1>14, InstallerAssumption DEF TypeOK, HandlerInPlace, HandlerKeepsBundle,
       ResultIsPublished, WorkerAlone, EntriesAhead, WriteFits, WorkerWrites, files,
       hubVars
<1>15. CASE WorkerFails
    BY <1>15, InstallerAssumption DEF TypeOK, HandlerInPlace, HandlerKeepsBundle,
       ResultIsPublished, WorkerAlone, EntriesAhead, WriteFits, WorkerFails, Asleep,
       files, hubVars
<1>16. CASE WorkerPublishes
    BY <1>16, InstallerAssumption DEF TypeOK, HandlerInPlace, HandlerKeepsBundle,
       ResultIsPublished, WorkerAlone, EntriesAhead, WriteFits, WorkerPublishes,
       Asleep, files
<1>17. CASE Crash
    BY <1>17, InstallerAssumption DEF TypeOK, HandlerInPlace, HandlerKeepsBundle,
       ResultIsPublished, WorkerAlone, EntriesAhead, WriteFits, Crash, Idle, Asleep,
       NoView, files
<1>18. ASSUME NEW n \in Names, WorkerExamines(n)
      PROVE  WriteFits'
  <2>1. worker.snap[n] # Nil
      BY <1>18 DEF WorkerExamines, EntriesAhead
  <2>2. FreshMirror(n) \in Mirrors /\ worker.snap[n].on \in BOOLEAN
      BY <2>1 DEF TypeOK, Entries, FreshMirror, Mirrors
  <2>3. n \in bundle => Repaired(n) # Nil /\ Repaired(n).on = worker.snap[n].on
      BY <2>2, EntryIsEntry DEF Repaired
  <2>4. n \notin bundle => Repaired(n) = Nil
      BY DEF Repaired
  <2>5. CASE worker' = [worker EXCEPT !.left = @ \ {n}]
      BY <1>18, <2>5 DEF WorkerExamines, WriteFits, TypeOK
  <2>6. CASE worker' = [worker EXCEPT !.left = @ \ {n}, !.stage = "write", !.name = n,
                                     !.entry = Repaired(n)]
    <3>1. /\ worker'.stage = "write"
          /\ worker'.name = n
          /\ worker'.left = worker.left \ {n}
          /\ worker'.snap = worker.snap
          /\ worker'.entry = Repaired(n)
        BY <2>6 DEF TypeOK
    <3>2. UNCHANGED <<bundle, registry, faults>>
        BY <1>18 DEF WorkerExamines, files
    <3>3. n \notin bundle => registry[n] # Nil
        BY <1>18 DEF WorkerExamines, EntriesAhead, HandlerInPlace, HandlerKeepsBundle
    <3> QED BY <2>1, <2>3, <2>4, <3>1, <3>2, <3>3 DEF WriteFits
  <2> QED BY <1>18, <2>5, <2>6 DEF WorkerExamines
<1>19. ASSUME NEW n \in Names, EditIntents(n)
      PROVE  WriteFits'
    BY <1>19, InstallerAssumption DEF TypeOK, HandlerInPlace, HandlerKeepsBundle,
       ResultIsPublished, WorkerAlone, EntriesAhead, WriteFits, EditIntents,
       Meanwhile, hubVars
<1>20. ASSUME NEW n \in Names, RemoveByHand(n)
      PROVE  WriteFits'
    BY <1>20, InstallerAssumption DEF TypeOK, HandlerInPlace, HandlerKeepsBundle,
       ResultIsPublished, WorkerAlone, EntriesAhead, WriteFits, RemoveByHand,
       Meanwhile, hubVars
<1>21. CASE UNCHANGED vars
    BY <1>21, InstallerAssumption DEF TypeOK, HandlerInPlace, HandlerKeepsBundle,
       ResultIsPublished, WorkerAlone, EntriesAhead, WriteFits, vars, files, hubVars
<1> QED
    BY <1>1, <1>2, <1>3, <1>4, <1>5, <1>6, <1>7, <1>8, <1>9, <1>10, <1>11, <1>12,
       <1>13, <1>14, <1>15, <1>16, <1>17, <1>18, <1>19, <1>20, <1>21 DEF Next

(***************************************************************************)
(* What the files say.                                                     *)
(***************************************************************************)
\* At the start every old bundle is listed and enabled.
LEMMA FilesInit ==
    Init => NothingPointsToMissingBundle /\ ConfigAgrees /\ OnlyInstallStrands
<1> SUFFICES ASSUME Init
             PROVE  NothingPointsToMissingBundle /\ ConfigAgrees /\ OnlyInstallStrands
    OBVIOUS
<1>1. \A n \in Names : n \notin bundle => registry[n] = Nil
    BY DEF Init
<1>2. \A n \in Names : n \in bundle => registry[n].on = TRUE
    BY DEF Init
<1>3. [on |-> TRUE, mirror |-> "v1", managed |-> FALSE] # Nil
  <2>1. [on |-> TRUE, mirror |-> "v1", managed |-> FALSE] \in Entries
      BY DEF Entries, Mirrors
  <2> QED BY <2>1, InstallerAssumption
<1>4. \A n \in bundle : registry[n] # Nil
    BY <1>3 DEF Init
<1>5. NothingPointsToMissingBundle
    BY <1>1 DEF Init, NothingPointsToMissingBundle, NoView
<1>6. ConfigAgrees
    BY <1>2 DEF Init, ConfigAgrees, Idle
<1>7. OnlyInstallStrands
    BY <1>4 DEF OnlyInstallStrands
<1> QED BY <1>5, <1>6, <1>7

\* An entry is written for a bundle that is there, and a bundle is removed
\* when nothing points to it any more.
LEMMA NothingMissingStep ==
  ASSUME TypeOK, HandlerInPlace, HandlerKeepsBundle, ResultIsPublished, WorkerAlone,
     WriteFits, NothingPointsToMissingBundle, [Next]_vars
  PROVE  NothingPointsToMissingBundle'
<1>1. CASE InstallMoves
    BY <1>1 DEF TypeOK, HandlerInPlace, HandlerKeepsBundle, ResultIsPublished,
       WriteFits, NothingPointsToMissingBundle, InstallMoves, Entry, hubVars
<1>2. CASE PrepareRuntime
    BY <1>2 DEF TypeOK, HandlerInPlace, HandlerKeepsBundle, ResultIsPublished,
       WriteFits, NothingPointsToMissingBundle, PrepareRuntime, Goto, files, hubVars
<1>3. CASE InstallUpserts
    BY <1>3 DEF TypeOK, HandlerInPlace, HandlerKeepsBundle, ResultIsPublished,
       WriteFits, NothingPointsToMissingBundle, InstallUpserts, Goto, files, hubVars
<1>4. CASE WriteReceipt
    BY <1>4 DEF TypeOK, HandlerInPlace, HandlerKeepsBundle, ResultIsPublished,
       WriteFits, NothingPointsToMissingBundle, WriteReceipt, Goto, hubVars
<1>5. CASE CleanupRemovesEntry
    BY <1>5, CleanupLoop DEF TypeOK, HandlerInPlace, HandlerKeepsBundle,
       ResultIsPublished, WriteFits, NothingPointsToMissingBundle
<1>6. CASE DeleteRemovesEntry
    BY <1>6, DeleteLoop DEF TypeOK, HandlerInPlace, HandlerKeepsBundle,
       ResultIsPublished, WriteFits, NothingPointsToMissingBundle
<1>7. CASE UpdateSaves
    BY <1>7 DEF TypeOK, HandlerInPlace, HandlerKeepsBundle, ResultIsPublished,
       WriteFits, NothingPointsToMissingBundle, UpdateSaves, Preserved, Entry, hubVars
<1>8. CASE UpdateUpserts
    BY <1>8 DEF TypeOK, HandlerInPlace, HandlerKeepsBundle, ResultIsPublished,
       WriteFits, NothingPointsToMissingBundle, UpdateUpserts, Goto, hubVars
<1>9. CASE Reload
    BY <1>9 DEF TypeOK, HandlerInPlace, HandlerKeepsBundle, ResultIsPublished,
       WriteFits, NothingPointsToMissingBundle, Reload, Goto, ReloadFails, Confirmed,
       HubFree, files
<1>10. CASE RemoveTree
    BY <1>10 DEF TypeOK, HandlerInPlace, HandlerKeepsBundle, ResultIsPublished,
       WriteFits, NothingPointsToMissingBundle, RemoveTree, Goto, hubVars
<1>11. CASE Answer
    BY <1>11 DEF TypeOK, HandlerInPlace, HandlerKeepsBundle, ResultIsPublished,
       WriteFits, NothingPointsToMissingBundle, Answer, Idle, files, hubVars
<1>12. CASE Refresh
    BY <1>12 DEF TypeOK, HandlerInPlace, HandlerKeepsBundle, ResultIsPublished,
       WriteFits, NothingPointsToMissingBundle, Refresh, HubFree, files
<1>13. CASE WorkerReads
    BY <1>13 DEF TypeOK, HandlerInPlace, HandlerKeepsBundle, ResultIsPublished,
       WriteFits, NothingPointsToMissingBundle, WorkerReads, files, hubVars
<1>14. CASE WorkerWrites
    BY <1>14 DEF TypeOK, HandlerInPlace, HandlerKeepsBundle, ResultIsPublished,
       WriteFits, NothingPointsToMissingBundle, WorkerWrites, files, hubVars
<1>15. CASE WorkerFails
    BY <1>15 DEF TypeOK, HandlerInPlace, HandlerKeepsBundle, ResultIsPublished,
       WriteFits, NothingPointsToMissingBundle, WorkerFails, Asleep, files, hubVars
<1>16. CASE WorkerPublishes
    BY <1>16 DEF TypeOK, HandlerInPlace, HandlerKeepsBundle, ResultIsPublished,
       WriteFits, NothingPointsToMissingBundle, WorkerPublishes, Asleep, files
<1>17. CASE Crash
    BY <1>17 DEF TypeOK, HandlerInPlace, HandlerKeepsBundle, ResultIsPublished,
       WriteFits, NothingPointsToMissingBundle, Crash, Idle, Asleep, NoView, files
<1>18. ASSUME NEW n \in Names, WorkerExamines(n)
      PROVE  NothingPointsToMissingBundle'
    BY <1>18 DEF TypeOK, HandlerInPlace, HandlerKeepsBundle, ResultIsPublished,
       WriteFits, NothingPointsToMissingBundle, WorkerExamines, Owned, Entry,
       FreshMirror, Repaired, files, hubVars
<1>19. ASSUME NEW n \in Names, EditIntents(n)
      PROVE  NothingPointsToMissingBundle'
    BY <1>19 DEF TypeOK, HandlerInPlace, HandlerKeepsBundle, ResultIsPublished,
       WriteFits, NothingPointsToMissingBundle, EditIntents, Meanwhile, hubVars
<1>20. ASSUME NEW n \in Names, RemoveByHand(n)
      PROVE  NothingPointsToMissingBundle'
    BY <1>20 DEF TypeOK, HandlerInPlace, HandlerKeepsBundle, ResultIsPublished,
       WriteFits, NothingPointsToMissingBundle, RemoveByHand, Meanwhile, hubVars
<1>21. CASE UNCHANGED vars
    BY <1>21 DEF TypeOK, HandlerInPlace, HandlerKeepsBundle, ResultIsPublished,
       WriteFits, NothingPointsToMissingBundle, vars, files, hubVars
<1> QED
    BY <1>1, <1>2, <1>3, <1>4, <1>5, <1>6, <1>7, <1>8, <1>9, <1>10, <1>11, <1>12,
       <1>13, <1>14, <1>15, <1>16, <1>17, <1>18, <1>19, <1>20, <1>21 DEF Next

\* Manifest and entry change together, or the update restores the manifest.
LEMMA ConfigAgreesStep ==
  ASSUME TypeOK, HandlerInPlace, HandlerKeepsBundle, WriteFits, ConfigAgrees,
     [Next]_vars
  PROVE  ConfigAgrees'
<1>1. CASE InstallMoves
    BY <1>1, InstallerAssumption DEF TypeOK, HandlerInPlace, HandlerKeepsBundle,
       WriteFits, ConfigAgrees, InstallMoves, Entry, hubVars
<1>2. CASE PrepareRuntime
    BY <1>2, InstallerAssumption DEF TypeOK, HandlerInPlace, HandlerKeepsBundle,
       WriteFits, ConfigAgrees, PrepareRuntime, Goto, files, hubVars
<1>3. CASE InstallUpserts
    BY <1>3, InstallerAssumption DEF TypeOK, HandlerInPlace, HandlerKeepsBundle,
       WriteFits, ConfigAgrees, InstallUpserts, Goto, files, hubVars
<1>4. CASE WriteReceipt
    BY <1>4, InstallerAssumption DEF TypeOK, HandlerInPlace, HandlerKeepsBundle,
       WriteFits, ConfigAgrees, WriteReceipt, Goto, hubVars
<1>5. CASE CleanupRemovesEntry
    BY <1>5, CleanupLoop, InstallerAssumption DEF TypeOK, HandlerInPlace,
       HandlerKeepsBundle, WriteFits, ConfigAgrees
<1>6. CASE DeleteRemovesEntry
    BY <1>6, DeleteLoop, InstallerAssumption DEF TypeOK, HandlerInPlace,
       HandlerKeepsBundle, WriteFits, ConfigAgrees
<1>7. CASE UpdateSaves
    BY <1>7, InstallerAssumption DEF TypeOK, HandlerInPlace, HandlerKeepsBundle,
       WriteFits, ConfigAgrees, UpdateSaves, Preserved, Entry, hubVars
<1>8. CASE UpdateUpserts
    BY <1>8, InstallerAssumption DEF TypeOK, HandlerInPlace, HandlerKeepsBundle,
       WriteFits, ConfigAgrees, UpdateUpserts, Goto, hubVars
<1>9. CASE Reload
    BY <1>9, InstallerAssumption DEF TypeOK, HandlerInPlace, HandlerKeepsBundle,
       WriteFits, ConfigAgrees, Reload, Goto, ReloadFails, Confirmed, HubFree, files
<1>10. CASE RemoveTree
    BY <1>10, InstallerAssumption DEF TypeOK, HandlerInPlace, HandlerKeepsBundle,
       WriteFits, ConfigAgrees, RemoveTree, Goto, hubVars
<1>11. CASE Answer
    BY <1>11, InstallerAssumption DEF TypeOK, HandlerInPlace, HandlerKeepsBundle,
       WriteFits, ConfigAgrees, Answer, Idle, files, hubVars
<1>12. CASE Refresh
    BY <1>12, InstallerAssumption DEF TypeOK, HandlerInPlace, HandlerKeepsBundle,
       WriteFits, ConfigAgrees, Refresh, HubFree, files
<1>13. CASE WorkerReads
    BY <1>13, InstallerAssumption DEF TypeOK, HandlerInPlace, HandlerKeepsBundle,
       WriteFits, ConfigAgrees, WorkerReads, files, hubVars
<1>14. CASE WorkerWrites
    BY <1>14, InstallerAssumption DEF TypeOK, HandlerInPlace, HandlerKeepsBundle,
       WriteFits, ConfigAgrees, WorkerWrites, files, hubVars
<1>15. CASE WorkerFails
    BY <1>15, InstallerAssumption DEF TypeOK, HandlerInPlace, HandlerKeepsBundle,
       WriteFits, ConfigAgrees, WorkerFails, Asleep, files, hubVars
<1>16. CASE WorkerPublishes
    BY <1>16, InstallerAssumption DEF TypeOK, HandlerInPlace, HandlerKeepsBundle,
       WriteFits, ConfigAgrees, WorkerPublishes, Asleep, files
<1>17. CASE Crash
    BY <1>17, InstallerAssumption DEF TypeOK, HandlerInPlace, HandlerKeepsBundle,
       WriteFits, ConfigAgrees, Crash, Idle, Asleep, NoView, files
<1>18. ASSUME NEW n \in Names, WorkerExamines(n)
      PROVE  ConfigAgrees'
    BY <1>18, InstallerAssumption DEF TypeOK, HandlerInPlace, HandlerKeepsBundle,
       WriteFits, ConfigAgrees, WorkerExamines, Owned, Entry, FreshMirror, Repaired,
       files, hubVars
<1>19. ASSUME NEW n \in Names, EditIntents(n)
      PROVE  ConfigAgrees'
    BY <1>19, InstallerAssumption DEF TypeOK, HandlerInPlace, HandlerKeepsBundle,
       WriteFits, ConfigAgrees, EditIntents, Meanwhile, hubVars
<1>20. ASSUME NEW n \in Names, RemoveByHand(n)
      PROVE  ConfigAgrees'
    BY <1>20, InstallerAssumption DEF TypeOK, HandlerInPlace, HandlerKeepsBundle,
       WriteFits, ConfigAgrees, RemoveByHand, Meanwhile, hubVars
<1>21. CASE UNCHANGED vars
    BY <1>21, InstallerAssumption DEF TypeOK, HandlerInPlace, HandlerKeepsBundle,
       WriteFits, ConfigAgrees, vars, files, hubVars
<1> QED
    BY <1>1, <1>2, <1>3, <1>4, <1>5, <1>6, <1>7, <1>8, <1>9, <1>10, <1>11, <1>12,
       <1>13, <1>14, <1>15, <1>16, <1>17, <1>18, <1>19, <1>20, <1>21 DEF Next

\* An entry goes before its receipt, and an install that fails takes its
\* bundle back.
LEMMA OnlyInstallStrandsStep ==
  ASSUME TypeOK, HandlerInPlace, HandlerKeepsBundle, ResultIsPublished, WriteFits,
     OnlyInstallStrands, [Next]_vars
  PROVE  OnlyInstallStrands'
<1>1. CASE InstallMoves
    BY <1>1, InstallerAssumption DEF TypeOK, HandlerInPlace, HandlerKeepsBundle,
       ResultIsPublished, WriteFits, OnlyInstallStrands, InstallMoves, Entry, hubVars
<1>2. CASE PrepareRuntime
    BY <1>2, InstallerAssumption DEF TypeOK, HandlerInPlace, HandlerKeepsBundle,
       ResultIsPublished, WriteFits, OnlyInstallStrands, PrepareRuntime, Goto, files,
       hubVars
<1>3. CASE InstallUpserts
    BY <1>3, InstallerAssumption DEF TypeOK, HandlerInPlace, HandlerKeepsBundle,
       ResultIsPublished, WriteFits, OnlyInstallStrands, InstallUpserts, Goto, files,
       hubVars
<1>4. CASE WriteReceipt
    BY <1>4, InstallerAssumption DEF TypeOK, HandlerInPlace, HandlerKeepsBundle,
       ResultIsPublished, WriteFits, OnlyInstallStrands, WriteReceipt, Goto, hubVars
<1>5. CASE CleanupRemovesEntry
    BY <1>5, CleanupLoop, InstallerAssumption DEF TypeOK, HandlerInPlace,
       HandlerKeepsBundle, ResultIsPublished, WriteFits, OnlyInstallStrands
<1>6. CASE DeleteRemovesEntry
    BY <1>6, DeleteLoop, InstallerAssumption DEF TypeOK, HandlerInPlace,
       HandlerKeepsBundle, ResultIsPublished, WriteFits, OnlyInstallStrands
<1>7. CASE UpdateSaves
    BY <1>7, InstallerAssumption DEF TypeOK, HandlerInPlace, HandlerKeepsBundle,
       ResultIsPublished, WriteFits, OnlyInstallStrands, UpdateSaves, Preserved,
       Entry, hubVars
<1>8. CASE UpdateUpserts
    BY <1>8, InstallerAssumption DEF TypeOK, HandlerInPlace, HandlerKeepsBundle,
       ResultIsPublished, WriteFits, OnlyInstallStrands, UpdateUpserts, Goto, hubVars
<1>9. CASE Reload
    BY <1>9, InstallerAssumption DEF TypeOK, HandlerInPlace, HandlerKeepsBundle,
       ResultIsPublished, WriteFits, OnlyInstallStrands, Reload, Goto, ReloadFails,
       Confirmed, HubFree, files
<1>10. CASE RemoveTree
    BY <1>10, InstallerAssumption DEF TypeOK, HandlerInPlace, HandlerKeepsBundle,
       ResultIsPublished, WriteFits, OnlyInstallStrands, RemoveTree, Goto, hubVars
<1>11. CASE Answer
    BY <1>11, InstallerAssumption DEF TypeOK, HandlerInPlace, HandlerKeepsBundle,
       ResultIsPublished, WriteFits, OnlyInstallStrands, Answer, Idle, files, hubVars
<1>12. CASE Refresh
    BY <1>12, InstallerAssumption DEF TypeOK, HandlerInPlace, HandlerKeepsBundle,
       ResultIsPublished, WriteFits, OnlyInstallStrands, Refresh, HubFree, files
<1>13. CASE WorkerReads
    BY <1>13, InstallerAssumption DEF TypeOK, HandlerInPlace, HandlerKeepsBundle,
       ResultIsPublished, WriteFits, OnlyInstallStrands, WorkerReads, files, hubVars
<1>14. CASE WorkerWrites
    BY <1>14, InstallerAssumption DEF TypeOK, HandlerInPlace, HandlerKeepsBundle,
       ResultIsPublished, WriteFits, OnlyInstallStrands, WorkerWrites, files, hubVars
<1>15. CASE WorkerFails
    BY <1>15, InstallerAssumption DEF TypeOK, HandlerInPlace, HandlerKeepsBundle,
       ResultIsPublished, WriteFits, OnlyInstallStrands, WorkerFails, Asleep, files,
       hubVars
<1>16. CASE WorkerPublishes
    BY <1>16, InstallerAssumption DEF TypeOK, HandlerInPlace, HandlerKeepsBundle,
       ResultIsPublished, WriteFits, OnlyInstallStrands, WorkerPublishes, Asleep,
       files
<1>17. CASE Crash
    BY <1>17, InstallerAssumption DEF TypeOK, HandlerInPlace, HandlerKeepsBundle,
       ResultIsPublished, WriteFits, OnlyInstallStrands, Crash, Idle, Asleep, NoView,
       files
<1>18. ASSUME NEW n \in Names, WorkerExamines(n)
      PROVE  OnlyInstallStrands'
    BY <1>18, InstallerAssumption DEF TypeOK, HandlerInPlace, HandlerKeepsBundle,
       ResultIsPublished, WriteFits, OnlyInstallStrands, WorkerExamines, Owned, Entry,
       FreshMirror, Repaired, files, hubVars
<1>19. ASSUME NEW n \in Names, EditIntents(n)
      PROVE  OnlyInstallStrands'
    BY <1>19, InstallerAssumption DEF TypeOK, HandlerInPlace, HandlerKeepsBundle,
       ResultIsPublished, WriteFits, OnlyInstallStrands, EditIntents, Meanwhile,
       hubVars
<1>20. ASSUME NEW n \in Names, RemoveByHand(n)
      PROVE  OnlyInstallStrands'
    BY <1>20, InstallerAssumption DEF TypeOK, HandlerInPlace, HandlerKeepsBundle,
       ResultIsPublished, WriteFits, OnlyInstallStrands, RemoveByHand, Meanwhile,
       hubVars
<1>21. CASE UNCHANGED vars
    BY <1>21, InstallerAssumption DEF TypeOK, HandlerInPlace, HandlerKeepsBundle,
       ResultIsPublished, WriteFits, OnlyInstallStrands, vars, files, hubVars
<1> QED
    BY <1>1, <1>2, <1>3, <1>4, <1>5, <1>6, <1>7, <1>8, <1>9, <1>10, <1>11, <1>12,
       <1>13, <1>14, <1>15, <1>16, <1>17, <1>18, <1>19, <1>20, <1>21 DEF Next

(***************************************************************************)
(* The start.  What the worker has settled fits the bundle; the entry of a *)
(* route that waits for the worker is excepted.                            *)
(***************************************************************************)
\* An entry that carries the installer's marker says what the bundle says.
Fits(n, e) ==
    e # Nil /\ e.managed =>
        /\ n \in bundle
        /\ e.mirror = IF intents[n] = "bad" THEN "none" ELSE intents[n]

\* The worker is about to write an entry of n.
Writing(n) == worker.stage = "write" /\ worker.name = n

\* The entry of n is as the worker has read it, or fits, or is about to.
Settled(n) ==
    /\ n \in worker.left => registry[n] = worker.snap[n]
    /\ n \notin worker.left /\ ~Writing(n) => Fits(n, registry[n])
    /\ Writing(n) => Fits(n, worker.entry)

\* While nobody edits a bundle, the worker settles entry by entry; the one
\* exception is the entry of a route that waits for it.
RepairsAhead ==
    "meanwhile" \notin faults /\ worker.stage # "idle" =>
        \A n \in Names : Settled(n) \/ (loop.stage = "reload" /\ loop.name = n)

\* What an install is going to list is what its bundle says, and before it
\* does nobody else lists that bundle.
InstallIsNew ==
    "meanwhile" \notin faults =>
        /\ loop.op = "install" => Fits(loop.name, loop.want)
        /\ worker.stage = "write" /\ worker.entry # Nil => worker.entry.managed
        /\ loop.stage \in {"runtime", "upsert"} =>
              /\ registry[loop.name] = Nil
              /\ worker.stage # "idle" => loop.name \notin worker.left
              /\ Writing(loop.name) => worker.entry = Nil

LEMMA RepairsInit == Init => RepairsAhead /\ InstallIsNew
  BY DEF Init, RepairsAhead, InstallIsNew, Idle, Asleep

\* An install begins with a name that has no entry, and lists its own file.
LEMMA InstallIsNewStep ==
  ASSUME TypeOK, HandlerInPlace, HandlerKeepsBundle, ResultIsPublished, WorkerAlone,
     EntriesAhead, WriteFits, RepairsAhead, InstallIsNew, [Next]_vars
  PROVE  InstallIsNew'
<1>1. CASE InstallMoves
  <2> SUFFICES ASSUME "meanwhile" \notin faults' PROVE InstallIsNew'
      BY DEF InstallIsNew
  <2>1. PICK n \in Names, on \in BOOLEAN, file \in {"none", "v1"} :
            /\ n \notin bundle /\ registry[n] = Nil
            /\ bundle' = bundle \cup {n} /\ intents' = [intents EXCEPT ![n] = file]
            /\ loop' = [op |-> "install", stage |-> "runtime", name |-> n,
                        want |-> Entry(on, file), undo |-> FALSE]
      BY <1>1 DEF InstallMoves
  <2>2. loop.op = "idle" /\ UNCHANGED <<registry, worker, faults>>
      BY <1>1 DEF InstallMoves
  <2>3. /\ loop'.op = "install" /\ loop'.stage = "runtime" /\ loop'.name = n
        /\ loop'.want = Entry(on, file)
      BY <2>1
  <2>4. Fits(n, Entry(on, file))'
      BY <2>1 DEF Fits, Entry, TypeOK
  <2>5. worker.stage # "idle" => n \notin worker.left
      BY <2>1, <2>2 DEF EntriesAhead, HandlerInPlace
  <2>6. worker.stage = "write" /\ worker.entry # Nil => worker.entry.managed
      BY <2>2 DEF InstallIsNew
  <2>7. Writing(n) => worker.entry = Nil
    <3>1. ASSUME Writing(n), worker.entry # Nil PROVE n \in bundle
      <4>1. worker.stage = "write" /\ worker.name = n
          BY <3>1 DEF Writing
      <4>2. Fits(n, worker.entry)
          BY <2>2, <3>1, <4>1 DEF RepairsAhead, Settled, HandlerInPlace
      <4> QED BY <2>6, <3>1, <4>1, <4>2 DEF Fits
    <3> QED BY <2>1, <3>1
  <2> QED BY <2>1, <2>2, <2>3, <2>4, <2>5, <2>6, <2>7 DEF InstallIsNew, Writing
<1>2. CASE PrepareRuntime
    BY <1>2, InstallerAssumption DEF TypeOK, HandlerInPlace, HandlerKeepsBundle,
       WorkerAlone, ResultIsPublished, InstallIsNew, Fits, Writing, PrepareRuntime,
       Goto, hubVars, files
<1>3. CASE InstallUpserts
    BY <1>3, InstallerAssumption DEF TypeOK, HandlerInPlace, HandlerKeepsBundle,
       WorkerAlone, ResultIsPublished, InstallIsNew, Fits, Writing, InstallUpserts,
       Goto, hubVars, files
<1>4. CASE WriteReceipt
    BY <1>4, InstallerAssumption DEF TypeOK, HandlerInPlace, HandlerKeepsBundle,
       WorkerAlone, ResultIsPublished, InstallIsNew, Fits, Writing, WriteReceipt,
       Goto, hubVars
<1>5. CASE CleanupRemovesEntry
    BY <1>5, CleanupLoop DEF TypeOK, HandlerInPlace, HandlerKeepsBundle, WorkerAlone, ResultIsPublished, InstallIsNew, Fits, Writing
<1>6. CASE DeleteRemovesEntry
    BY <1>6, DeleteLoop DEF TypeOK, HandlerInPlace, HandlerKeepsBundle, WorkerAlone, ResultIsPublished, InstallIsNew, Fits, Writing
<1>7. CASE UpdateSaves
    BY <1>7, InstallerAssumption DEF TypeOK, HandlerInPlace, HandlerKeepsBundle,
       WorkerAlone, ResultIsPublished, InstallIsNew, Fits, Writing, UpdateSaves,
       Entry, hubVars, Preserved
<1>8. CASE UpdateUpserts
    BY <1>8, InstallerAssumption DEF TypeOK, HandlerInPlace, HandlerKeepsBundle,
       WorkerAlone, ResultIsPublished, InstallIsNew, Fits, Writing, UpdateUpserts,
       Goto, hubVars
<1>9. CASE Reload
    BY <1>9, InstallerAssumption DEF TypeOK, HandlerInPlace, HandlerKeepsBundle,
       WorkerAlone, ResultIsPublished, InstallIsNew, Fits, Writing, Reload, Goto,
       files, ReloadFails, Confirmed, HubFree
<1>10. CASE RemoveTree
    BY <1>10, InstallerAssumption DEF TypeOK, HandlerInPlace, HandlerKeepsBundle,
       WorkerAlone, ResultIsPublished, InstallIsNew, Fits, Writing, RemoveTree,
       Goto, hubVars
<1>11. CASE Answer
    BY <1>11, InstallerAssumption DEF TypeOK, HandlerInPlace, HandlerKeepsBundle,
       WorkerAlone, ResultIsPublished, InstallIsNew, Fits, Writing, Answer, hubVars,
       files, Idle
<1>12. CASE Refresh
    BY <1>12, InstallerAssumption DEF TypeOK, HandlerInPlace, HandlerKeepsBundle,
       WorkerAlone, ResultIsPublished, InstallIsNew, Fits, Writing, Refresh, files,
       HubFree
<1>13. CASE WorkerReads
    BY <1>13, InstallerAssumption DEF TypeOK, HandlerInPlace, HandlerKeepsBundle,
       WorkerAlone, ResultIsPublished, InstallIsNew, Fits, Writing, WorkerReads,
       hubVars, files
<1>14. CASE WorkerWrites
    BY <1>14, InstallerAssumption DEF TypeOK, HandlerInPlace, HandlerKeepsBundle,
       WorkerAlone, ResultIsPublished, InstallIsNew, Fits, Writing, WorkerWrites,
       hubVars, files
<1>15. CASE WorkerFails
    BY <1>15, InstallerAssumption DEF TypeOK, HandlerInPlace, HandlerKeepsBundle,
       WorkerAlone, ResultIsPublished, InstallIsNew, Fits, Writing, WorkerFails,
       hubVars, files, Asleep
<1>16. CASE WorkerPublishes
    BY <1>16, InstallerAssumption DEF TypeOK, HandlerInPlace, HandlerKeepsBundle,
       WorkerAlone, ResultIsPublished, InstallIsNew, Fits, Writing, WorkerPublishes,
       files, Asleep
<1>17. CASE Crash
    BY <1>17, InstallerAssumption DEF TypeOK, HandlerInPlace, HandlerKeepsBundle,
       WorkerAlone, ResultIsPublished, InstallIsNew, Fits, Writing, Crash, files,
       Idle, Asleep, NoView
<1>18. ASSUME NEW n \in Names, WorkerExamines(n)
      PROVE  InstallIsNew'
    BY <1>18, InstallerAssumption DEF TypeOK, HandlerInPlace, HandlerKeepsBundle,
       WorkerAlone, ResultIsPublished, InstallIsNew, Fits, Writing, WorkerExamines,
       Entry, hubVars, files, Owned, FreshMirror, Repaired
<1>19. ASSUME NEW n \in Names, EditIntents(n)
      PROVE  InstallIsNew'
    BY <1>19, InstallerAssumption DEF TypeOK, HandlerInPlace, HandlerKeepsBundle,
       WorkerAlone, ResultIsPublished, InstallIsNew, Fits, Writing, EditIntents,
       hubVars, Meanwhile
<1>20. ASSUME NEW n \in Names, RemoveByHand(n)
      PROVE  InstallIsNew'
    BY <1>20, InstallerAssumption DEF TypeOK, HandlerInPlace, HandlerKeepsBundle,
       WorkerAlone, ResultIsPublished, InstallIsNew, Fits, Writing, RemoveByHand,
       hubVars, Meanwhile
<1>21. CASE UNCHANGED vars
    BY <1>21, InstallerAssumption DEF TypeOK, HandlerInPlace, HandlerKeepsBundle,
       WorkerAlone, ResultIsPublished, InstallIsNew, Fits, Writing, vars, files,
       hubVars
<1> QED
    BY <1>1, <1>2, <1>3, <1>4, <1>5, <1>6, <1>7, <1>8, <1>9, <1>10, <1>11, <1>12,
       <1>13, <1>14, <1>15, <1>16, <1>17, <1>18, <1>19, <1>20, <1>21 DEF Next

\* Every write to the registry fits the bundle or belongs to a route that waits.
LEMMA RepairsAheadStep ==
  ASSUME TypeOK, HandlerInPlace, HandlerKeepsBundle, ResultIsPublished, WorkerAlone,
     EntriesAhead, WriteFits, RepairsAhead, InstallIsNew, [Next]_vars
  PROVE  RepairsAhead'
<1>1. CASE InstallMoves
    BY <1>1, InstallerAssumption DEF TypeOK, HandlerInPlace, WorkerAlone,
       ResultIsPublished, InstallIsNew, RepairsAhead, Settled, Fits, Writing,
       InstallMoves, Entry, hubVars
<1>2. CASE PrepareRuntime
    BY <1>2, InstallerAssumption DEF TypeOK, HandlerInPlace, WorkerAlone,
       ResultIsPublished, InstallIsNew, RepairsAhead, Settled, Fits, Writing,
       PrepareRuntime, Goto, hubVars, files
<1>3. CASE InstallUpserts
    BY <1>3, InstallerAssumption DEF TypeOK, HandlerInPlace, WorkerAlone,
       ResultIsPublished, InstallIsNew, RepairsAhead, Settled, Fits, Writing,
       InstallUpserts, Goto, hubVars, files
<1>4. CASE WriteReceipt
    BY <1>4, InstallerAssumption DEF TypeOK, HandlerInPlace, WorkerAlone,
       ResultIsPublished, InstallIsNew, RepairsAhead, Settled, Fits, Writing,
       WriteReceipt, Goto, hubVars
<1>5. CASE CleanupRemovesEntry
    BY <1>5, CleanupLoop DEF TypeOK, HandlerInPlace, WorkerAlone, ResultIsPublished, InstallIsNew, RepairsAhead, Settled, Fits, Writing
<1>6. CASE DeleteRemovesEntry
    BY <1>6, DeleteLoop DEF TypeOK, HandlerInPlace, WorkerAlone, ResultIsPublished, InstallIsNew, RepairsAhead, Settled, Fits, Writing
<1>7. CASE UpdateSaves
    BY <1>7, InstallerAssumption DEF TypeOK, HandlerInPlace, WorkerAlone,
       ResultIsPublished, InstallIsNew, RepairsAhead, Settled, Fits, Writing,
       UpdateSaves, Entry, hubVars, Preserved
<1>8. CASE UpdateUpserts
    BY <1>8, InstallerAssumption DEF TypeOK, HandlerInPlace, WorkerAlone,
       ResultIsPublished, InstallIsNew, RepairsAhead, Settled, Fits, Writing,
       UpdateUpserts, Goto, hubVars
<1>9. CASE Reload
    BY <1>9, InstallerAssumption DEF TypeOK, HandlerInPlace, WorkerAlone,
       ResultIsPublished, InstallIsNew, RepairsAhead, Settled, Fits, Writing,
       Reload, Goto, files, ReloadFails, Confirmed, HubFree
<1>10. CASE RemoveTree
    BY <1>10, InstallerAssumption DEF TypeOK, HandlerInPlace, WorkerAlone,
       ResultIsPublished, InstallIsNew, RepairsAhead, Settled, Fits, Writing,
       RemoveTree, Goto, hubVars
<1>11. CASE Answer
    BY <1>11, InstallerAssumption DEF TypeOK, HandlerInPlace, WorkerAlone,
       ResultIsPublished, InstallIsNew, RepairsAhead, Settled, Fits, Writing,
       Answer, hubVars, files, Idle
<1>12. CASE Refresh
    BY <1>12, InstallerAssumption DEF TypeOK, HandlerInPlace, WorkerAlone,
       ResultIsPublished, InstallIsNew, RepairsAhead, Settled, Fits, Writing,
       Refresh, files, HubFree
<1>13. CASE WorkerReads
    BY <1>13, InstallerAssumption DEF TypeOK, HandlerInPlace, WorkerAlone,
       ResultIsPublished, InstallIsNew, RepairsAhead, Settled, Fits, Writing,
       WorkerReads, hubVars, files
<1>14. CASE WorkerWrites
  <2> SUFFICES ASSUME "meanwhile" \notin faults', worker'.stage # "idle", NEW n \in Names,
                      ~(loop'.stage = "reload" /\ loop'.name = n)
               PROVE  Settled(n)'
      BY DEF RepairsAhead
  <2>1. /\ worker.stage = "write"
        /\ registry' = [registry EXCEPT ![worker.name] = worker.entry]
        /\ UNCHANGED <<bundle, intents, loop>>
        /\ "meanwhile" \notin faults
      BY <1>14 DEF WorkerWrites, files
  <2>2. /\ worker'.stage = "walk" /\ worker'.left = worker.left
        /\ worker'.snap = worker.snap
      BY <1>14 DEF WorkerWrites, TypeOK
  <2>3. Settled(n)
      BY <2>1 DEF RepairsAhead
  <2>4. worker.name \in Names \ worker.left
      BY <2>1 DEF WriteFits
  <2>5. CASE n = worker.name
    <3>1. Fits(n, worker.entry) /\ registry'[n] = worker.entry
        BY <2>1, <2>3, <2>5 DEF Settled, Writing, TypeOK
    <3>2. Fits(n, registry[n])'
        BY <2>1, <3>1 DEF Fits
    <3> QED BY <2>2, <2>4, <2>5, <3>2 DEF Settled, Writing
  <2>6. CASE n # worker.name
    <3>1. registry'[n] = registry[n] /\ ~Writing(n) /\ ~Writing(n)'
        BY <2>1, <2>2, <2>6 DEF TypeOK, Writing
    <3>2. Fits(n, registry[n]) => Fits(n, registry[n])'
        BY <2>1, <3>1 DEF Fits
    <3> QED BY <2>2, <2>3, <3>1, <3>2 DEF Settled
  <2> QED BY <2>5, <2>6
<1>15. CASE WorkerFails
    BY <1>15, InstallerAssumption DEF TypeOK, HandlerInPlace, WorkerAlone,
       ResultIsPublished, InstallIsNew, RepairsAhead, Settled, Fits, Writing,
       WorkerFails, hubVars, files, Asleep
<1>16. CASE WorkerPublishes
    BY <1>16, InstallerAssumption DEF TypeOK, HandlerInPlace, WorkerAlone,
       ResultIsPublished, InstallIsNew, RepairsAhead, Settled, Fits, Writing,
       WorkerPublishes, files, Asleep
<1>17. CASE Crash
    BY <1>17, InstallerAssumption DEF TypeOK, HandlerInPlace, WorkerAlone,
       ResultIsPublished, InstallIsNew, RepairsAhead, Settled, Fits, Writing, Crash,
       files, Idle, Asleep, NoView
<1>18. ASSUME NEW n \in Names, WorkerExamines(n)
      PROVE  RepairsAhead'
  <2> SUFFICES ASSUME "meanwhile" \notin faults', NEW m \in Names,
                      ~(loop'.stage = "reload" /\ loop'.name = m)
               PROVE  Settled(m)'
      BY DEF RepairsAhead
  <2>1. /\ worker.stage = "walk" /\ n \in worker.left
        /\ UNCHANGED <<bundle, intents, registry, loop, faults>>
      BY <1>18 DEF WorkerExamines, files
  <2>2. Settled(m)
      BY <2>1 DEF RepairsAhead
  <2>3. worker'.left = worker.left \ {n} /\ worker'.snap = worker.snap
      BY <1>18 DEF WorkerExamines, TypeOK
  <2>4. CASE m # n
    <3>1. ~Writing(m) /\ ~Writing(m)'
        BY <1>18, <2>1, <2>4 DEF WorkerExamines, Writing, TypeOK
    <3>2. Fits(m, registry[m]) => Fits(m, registry[m])'
        BY <2>1 DEF Fits
    <3> QED BY <2>1, <2>2, <2>3, <2>4, <3>1, <3>2 DEF Settled
  <2>5. CASE m = n
    <3>1. registry[n] = worker.snap[n] /\ worker.snap[n] # Nil
        BY <2>1, <2>2, <2>5 DEF Settled, EntriesAhead
    <3>2. Fits(n, Repaired(n))
      <4>1. CASE n \in bundle
        <5>1. intents[n] \in Intents
            BY DEF TypeOK
        <5>2. FreshMirror(n) = IF intents[n] = "bad" THEN "none" ELSE intents[n]
            BY <5>1 DEF FreshMirror, Intents, Mirrors
        <5>3. Repaired(n).mirror = FreshMirror(n)
            BY <4>1 DEF Repaired, Entry
        <5> QED BY <4>1, <5>2, <5>3 DEF Fits
      <4>2. CASE n \notin bundle
          BY <4>2 DEF Repaired, Fits
      <4> QED BY <4>1, <4>2
    <3>3. CASE worker' = [worker EXCEPT !.left = @ \ {n}]
      <4>1. worker.snap[n].managed => Repaired(n) = worker.snap[n]
        <5>1. worker'.stage = "walk"
            BY <2>1, <3>3 DEF TypeOK
        <5>2. worker' = [worker EXCEPT !.left = @ \ {n}, !.stage = "write", !.name = n,
                                      !.entry = Repaired(n)] => worker'.stage = "write"
            BY DEF TypeOK
        <5> QED BY <1>18, <5>1, <5>2 DEF WorkerExamines
      <4>2. Fits(n, registry[n])'
          BY <2>1, <3>1, <3>2, <4>1 DEF Fits
      <4>3. ~Writing(n)'
          BY <2>1, <3>3 DEF Writing, TypeOK
      <4> QED BY <2>3, <2>5, <4>2, <4>3 DEF Settled
    <3>4. CASE worker' = [worker EXCEPT !.left = @ \ {n}, !.stage = "write", !.name = n,
                                       !.entry = Repaired(n)]
      <4>1. worker'.stage = "write" /\ worker'.name = n /\ worker'.entry = Repaired(n)
          BY <3>4 DEF TypeOK
      <4>2. Fits(n, Repaired(n)) => Fits(n, worker.entry)'
          BY <2>1, <4>1 DEF Fits
      <4> QED BY <2>3, <2>5, <3>2, <4>1, <4>2 DEF Settled, Writing
    <3> QED BY <1>18, <3>3, <3>4 DEF WorkerExamines
  <2> QED BY <2>4, <2>5
<1>19. ASSUME NEW n \in Names, EditIntents(n)
      PROVE  RepairsAhead'
    BY <1>19, InstallerAssumption DEF TypeOK, HandlerInPlace, WorkerAlone,
       ResultIsPublished, InstallIsNew, RepairsAhead, Settled, Fits, Writing,
       EditIntents, hubVars, Meanwhile
<1>20. ASSUME NEW n \in Names, RemoveByHand(n)
      PROVE  RepairsAhead'
    BY <1>20, InstallerAssumption DEF TypeOK, HandlerInPlace, WorkerAlone,
       ResultIsPublished, InstallIsNew, RepairsAhead, Settled, Fits, Writing,
       RemoveByHand, hubVars, Meanwhile
<1>21. CASE UNCHANGED vars
    BY <1>21, InstallerAssumption DEF TypeOK, HandlerInPlace, WorkerAlone,
       ResultIsPublished, InstallIsNew, RepairsAhead, Settled, Fits, Writing, vars,
       files, hubVars
<1> QED
    BY <1>1, <1>2, <1>3, <1>4, <1>5, <1>6, <1>7, <1>8, <1>9, <1>10, <1>11, <1>12,
       <1>13, <1>14, <1>15, <1>16, <1>17, <1>18, <1>19, <1>20, <1>21 DEF Next

(***************************************************************************)
(* The theorems.                                                           *)
(***************************************************************************)
\* Every behaviour of the specification satisfies the invariant.
THEOREM InstallerInvariant == Spec => []IInv
<1>1. Init => IInv
    BY TypeInit, HandlerInit, PublishedInit, WorkerInit, FilesInit DEF IInv
<1>2. IInv /\ [Next]_vars => IInv'
  <2> SUFFICES ASSUME IInv, [Next]_vars
               PROVE  IInv'
      OBVIOUS
  <2>1. TypeOK' /\ HandlerInPlace' /\ HandlerKeepsBundle'
      BY TypeStep, HandlerInPlaceStep, HandlerKeepsBundleStep DEF IInv
  <2>2. ResultIsPublished' /\ WorkerAlone'
      BY ResultIsPublishedStep, WorkerAloneStep DEF IInv
  <2>3. EntriesAhead' /\ WriteFits'
      BY EntriesAheadStep, WriteFitsStep DEF IInv
  <2>4. NothingPointsToMissingBundle' /\ ConfigAgrees' /\ OnlyInstallStrands'
      BY NothingMissingStep, ConfigAgreesStep, OnlyInstallStrandsStep DEF IInv
  <2> QED BY <2>1, <2>2, <2>3, <2>4 DEF IInv
<1> QED BY <1>1, <1>2, PTL DEF Spec

\* Neither the registry nor the hub's published view points to a bundle that is
\* gone, wherever a route fails or the process dies, unless somebody removed
\* the directory by hand.
THEOREM NothingPointsToMissingBundleHolds == Spec => []NothingPointsToMissingBundle
<1>1. IInv => NothingPointsToMissingBundle
    BY DEF IInv
<1> QED BY <1>1, InstallerInvariant, PTL

\* When a route is about to report success, registry, hub and bundle directory
\* are as it says.
THEOREM SuccessIsConfirmedHolds == Spec => []SuccessIsConfirmed
<1>1. IInv => SuccessIsConfirmed
    BY DEF IInv, SuccessIsConfirmed, ResultIsPublished, HandlerKeepsBundle,
           HandlerInPlace, TypeOK, Owned
<1> QED BY <1>1, InstallerInvariant, PTL

\* Between two requests manifest and registry agree on what is enabled, unless
\* a crash or a stale write of the reconciliation came in between.
THEOREM ConfigMatchesRegistryHolds == Spec => []ConfigMatchesRegistry
<1>1. IInv => ConfigMatchesRegistry
    BY DEF IInv, ConfigMatchesRegistry, ConfigAgrees, HandlerInPlace
<1> QED BY <1>1, InstallerInvariant, PTL

\* A failed install leaves no bundle that can be neither installed again nor
\* deleted, unless its cleanup failed as well or the process died.
THEOREM StrandedNeedsFaultHolds == Spec => []StrandedNeedsFault
<1>1. IInv => StrandedNeedsFault
    BY DEF IInv, StrandedNeedsFault, OnlyInstallStrands
<1> QED BY <1>1, InstallerInvariant, PTL

\* reconcile_tool_manifest_mirrors() removes no entry whose bundle is there
\* when it writes, although it decided on an older reading.
THEOREM ReconcileKeepsBundlesHolds == Spec => ReconcileKeepsBundles
<1>1. IInv => (worker.stage = "write" /\ worker.entry = Nil => worker.name \notin bundle)
    BY DEF IInv, WriteFits
<1>2. IInv /\ [Next]_vars =>
          [worker.stage = "write" /\ worker.entry = Nil /\ worker' # Asleep =>
              worker.name \notin bundle]_vars
    BY <1>1
<1> QED BY <1>2, InstallerInvariant, PTL DEF Spec, ReconcileKeepsBundles

\* On top of the invariant above: what the reconciliation has settled.
THEOREM RepairInvariant == Spec => [](RepairsAhead /\ InstallIsNew)
<1>1. IInv /\ RepairsAhead /\ InstallIsNew /\ [Next]_vars => (RepairsAhead /\ InstallIsNew)'
    BY RepairsAheadStep, InstallIsNewStep DEF IInv
<1> QED BY <1>1, RepairsInit, InstallerInvariant, PTL DEF Spec

\* What initialize() publishes after its reconciliation is what the bundles say,
\* if neither a request nor anybody else changed them meanwhile.
THEOREM StartRepairsHolds == Spec => StartRepairs
<1>1. ASSUME IInv, RepairsAhead, [Next]_vars, ~reconciled, reconciled', loop.op = "idle",
             "meanwhile" \notin faults, NEW n \in Names, hub'[n] # Nil, hub'[n].managed
      PROVE  /\ n \in bundle
             /\ hub'[n].mirror = IF intents[n] = "bad" THEN "none" ELSE intents[n]
  <2>1. WorkerPublishes
      BY <1>1 DEF Next, vars, hubVars, InstallMoves, PrepareRuntime, InstallUpserts,
         WriteReceipt, CleanupRemovesEntry, DeleteRemovesEntry, UpdateSaves,
         UpdateUpserts, Reload, RemoveTree, Answer, Refresh, WorkerReads, WorkerWrites,
         WorkerFails, Crash, WorkerExamines, EditIntents, RemoveByHand
  <2>2. loop.stage = "idle"
      BY <1>1 DEF IInv, HandlerInPlace
  <2>3. worker.stage = "walk" /\ worker.left = {} /\ hub' = registry
      BY <2>1 DEF WorkerPublishes
  <2>4. Settled(n)
      BY <1>1, <2>2, <2>3 DEF RepairsAhead
  <2>5. Fits(n, registry[n])
      BY <2>3, <2>4 DEF Settled, Writing
  <2> QED BY <1>1, <2>3, <2>5 DEF Fits
<1>2. IInv /\ RepairsAhead /\ [Next]_vars =>
        [~reconciled /\ reconciled' /\ loop.op = "idle" /\ "meanwhile" \notin faults =>
            \A n \in Names : hub'[n] # Nil /\ hub'[n].managed =>
                /\ n \in bundle
                /\ hub'[n].mirror = IF intents[n] = "bad" THEN "none" ELSE intents[n]]_vars
    BY <1>1
<1> QED BY <1>2, InstallerInvariant, RepairInvariant, PTL DEF Spec, StartRepairs

=============================================================================
