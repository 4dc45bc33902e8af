---------------------------- MODULE McpHubProofs ----------------------------
(***************************************************************************)
(* Safety of the hub's catalog, for any threads, any number of catalogs    *)
(* and whatever the servers do: leases and the retirement of transports    *)
(* exclude each other, no transport is forgotten, the shutdown leaves one  *)
(* transport at most, only negotiated processes are called, and a caller   *)
(* gets its own answer unless its transport was disturbed.                 *)
(*                                                                         *)
(* The argument: a lease is counted (LeasesCounted) and is on the          *)
(* published catalog (LeaseIsPublished); the catalog is replaced only      *)
(* without leases, by revoke when the count is zero and by initialize()    *)
(* because nobody gets past it before (InitializeComesFirst); and a        *)
(* generation is in one place at a time (OnePlace).  What a transport owes *)
(* and what its queue holds is a second invariant on top (WireInv).        *)
(***************************************************************************)
EXTENDS McpHub, FiniteSetTheorems, TLAPS

(***************************************************************************)
(* The invariant.                                                          *)
(***************************************************************************)
\* What the proof needs of the types: the wire stays out of it.
CatalogType ==
    /\ hubLock \in Threads \cup {NoOne}
    /\ initialized \in BOOLEAN
    /\ published \in 0 .. built
    /\ tokens \in Nat
    /\ pc \in [Threads -> Places]
    /\ cand \in [Threads -> 0 .. built]
    /\ gen \in [Threads -> 0 .. built]
    /\ sync \in [Threads -> {"none", "load", "save"}]
    /\ built \in 0 .. MaxGen
    /\ routable \subseteq 1 .. built
    /\ retired \subseteq 1 .. built
    /\ stuck \subseteq 1 .. built

\* Where each kind of thread can be, who is alone, and who holds the lock.
ThreadsInPlace ==
    /\ \A a \in Callers : pc[a] \notin {"revoke", "drain", "retire", "done"}
    /\ pc[Loop] \notin {"publish", "done"}
    /\ pc[Shut] \in {"idle", "revoke", "drain", "retire", "done"}
    /\ pc[Shut] # "idle" => pc[Loop] = "idle"
    /\ \A a \in Threads : pc[a] \in {"build", "publish"} => hubLock = a
    /\ pc[Loop] \in {"revoke", "drain", "retire"} => hubLock = Loop
    /\ \A a \in Threads : cand[a] # 0 => pc[a] \in {"publish", "revoke", "drain"}
    /\ cand[Shut] = 0

\* Nobody gets past initialize() before a catalog was published.
InitializeComesFirst ==
    /\ \A a \in Callers : pc[a] \in {"build", "publish"} => ~initialized
    /\ ~initialized => \A a \in Threads :
          /\ pc[a] \notin {"acquire", "send", "wait", "release"}
          /\ sync[a] = "none"
    /\ ~initialized /\ published # 0 => pc[Loop] = "retire" /\ gen[Loop] = 0

\* The counter of the catalog is the number of leases.
LeasesCounted == tokens = Cardinality(Holders)

\* A generation is a candidate, published, or on its way out: never two.
OnePlace ==
    /\ published \notin retired \cup stuck
    /\ \A b \in Threads : pc[b] = "retire" /\ gen[b] # 0 => gen[b] # published
    /\ \A c \in Threads : cand[c] # 0 =>
          /\ cand[c] # published
          /\ cand[c] \notin retired \cup stuck
          /\ \A b \in Threads : pc[b] = "retire" => gen[b] # cand[c]
          /\ \A b \in Threads : b # c => cand[b] # cand[c]

\* A lease is on the published catalog.
LeaseIsPublished ==
    \A a \in Holders : gen[a] = published /\ published # 0

IInv ==
    /\ CatalogType
    /\ ThreadsInPlace
    /\ InitializeComesFirst
    /\ LeasesCounted
    /\ OnePlace
    /\ LeaseIsPublished

(***************************************************************************)
(* The types.                                                              *)
(***************************************************************************)
LEMMA TypeInit == Init => CatalogType
<1> SUFFICES ASSUME Init PROVE CatalogType
    OBVIOUS
<1>1. /\ pc \in [Threads -> Places]
      /\ cand \in [Threads -> 0 .. 0]
      /\ gen \in [Threads -> 0 .. 0]
      /\ sync \in [Threads -> {"none", "load", "save"}]
    BY DEF Init, Places
<1>2. built = 0 /\ built \in 0 .. MaxGen /\ published \in 0 .. built
    BY HubAssumption DEF Init, HubAssumption
<1> QED BY <1>1, <1>2 DEF Init, CatalogType

\* Every step keeps the types.
LEMMA TypeStep ==
  ASSUME CatalogType, [Next]_vars
  PROVE  CatalogType'
<1>1. CASE UNCHANGED vars
    BY <1>1 DEF CatalogType, Threads, Places, vars
<1>2. ASSUME NEW a \in Callers, CallTool(a) PROVE CatalogType'
    BY <1>2, HubAssumption DEF CatalogType, Threads, Places, CallTool, catalogVars,
       hubVars, wireVars, endVars, HubAssumption
<1>3. CASE StartReload
    BY <1>3, HubAssumption DEF CatalogType, Threads, Places, StartReload,
       catalogVars, endVars, wireVars, HubAssumption
<1>4. CASE Shutdown
    BY <1>4, HubAssumption DEF CatalogType, Threads, Places, Shutdown, catalogVars,
       hubVars, endVars, wireVars, HubAssumption
<1>5. ASSUME NEW a \in Threads, Enter(a) PROVE CatalogType'
    BY <1>5, HubAssumption DEF CatalogType, Threads, Places, Enter, catalogVars,
       endVars, wireVars, HubAssumption
<1>6. ASSUME NEW a \in Threads, BuildCatalog(a) PROVE CatalogType'
    BY <1>6, HubAssumption DEF CatalogType, Threads, Places, BuildCatalog,
       catalogVars, endVars, HubAssumption
<1>7. ASSUME NEW a \in Threads, BuildRaises(a) PROVE CatalogType'
    BY <1>7, HubAssumption DEF CatalogType, Threads, Places, BuildRaises,
       catalogVars, endVars, wireVars, HubAssumption
<1>8. ASSUME NEW a \in Threads, Publish(a) PROVE CatalogType'
    BY <1>8, HubAssumption DEF CatalogType, Threads, Places, Publish, endVars,
       wireVars, HubAssumption
<1>9. ASSUME NEW a \in Threads, Acquire(a) PROVE CatalogType'
    BY <1>9, HubAssumption DEF CatalogType, Threads, Places, Acquire, hubVars,
       endVars, wireVars, HubAssumption
<1>10. ASSUME NEW a \in Threads, AcquireFails(a) PROVE CatalogType'
    BY <1>10, HubAssumption DEF CatalogType, Threads, Places, AcquireFails,
       catalogVars, endVars, wireVars, AfterCall, HubAssumption
<1>11. ASSUME NEW a \in Threads, Send(a) PROVE CatalogType'
    BY <1>11, HubAssumption DEF CatalogType, Threads, Places, Send, catalogVars,
       hubVars, endVars, HubAssumption
<1>12. ASSUME NEW a \in Threads, Receive(a) PROVE CatalogType'
    BY <1>12, HubAssumption DEF CatalogType, Threads, Places, Receive, catalogVars,
       hubVars, endVars, HubAssumption
<1>13. ASSUME NEW a \in Threads, Timeout(a) PROVE CatalogType'
    BY <1>13, HubAssumption DEF CatalogType, Threads, Places, Timeout, catalogVars,
       hubVars, endVars, HubAssumption
<1>14. ASSUME NEW a \in Threads, Release(a) PROVE CatalogType'
    BY <1>14, HubAssumption DEF CatalogType, Threads, Places, Release, endVars,
       wireVars, AfterCall, HubAssumption
<1>15. ASSUME NEW a \in Threads, Revoke(a) PROVE CatalogType'
    BY <1>15, HubAssumption DEF CatalogType, Threads, Places, Revoke, endVars,
       wireVars, SwapCatalog, HubAssumption
<1>16. ASSUME NEW a \in Threads, Drained(a) PROVE CatalogType'
    BY <1>16, HubAssumption DEF CatalogType, Threads, Places, Drained, endVars,
       wireVars, SwapCatalog, HubAssumption
<1>17. ASSUME NEW a \in Threads, Retire(a) PROVE CatalogType'
  <2>1. gen[a] # 0 => gen[a] \in 1 .. built
      BY DEF CatalogType
  <2>2. retired' \subseteq 1 .. built
      BY <1>17, <2>1 DEF CatalogType, Retire
  <2>3. gen' \in [Threads -> 0 .. built] /\ pc' \in [Threads -> Places]
      BY <1>17 DEF CatalogType, Places, Retire
  <2> QED BY <1>17, <2>2, <2>3, HubAssumption DEF CatalogType, Threads, Retire, catalogVars
<1>18. ASSUME NEW a \in Threads, RetireRaises(a) PROVE CatalogType'
  <2>1. gen[a] # 0 => gen[a] \in 1 .. built
      BY DEF CatalogType
  <2>2. stuck' \subseteq 1 .. built
      BY <1>18, <2>1 DEF CatalogType, RetireRaises
  <2>3. gen' \in [Threads -> 0 .. built] /\ pc' \in [Threads -> Places]
      BY <1>18 DEF CatalogType, Places, RetireRaises
  <2> QED BY <1>18, <2>2, <2>3, HubAssumption DEF CatalogType, Threads, RetireRaises, catalogVars
<1>19. ASSUME NEW g \in Gens, ServerStep(g) PROVE CatalogType'
    BY <1>19, HubAssumption DEF CatalogType, Threads, Places, ServerStep,
       ServerAnswers, ServerNotifies, ServerDies, catalogVars, hubVars, endVars,
       HubAssumption
<1> QED
    BY <1>1, <1>2, <1>3, <1>4, <1>5, <1>6, <1>7, <1>8, <1>9, <1>10, <1>11, <1>12,
       <1>13, <1>14, <1>15, <1>16, <1>17, <1>18, <1>19 DEF Next, ThreadStep

(***************************************************************************)
(* Who can be where.                                                       *)
(***************************************************************************)
LEMMA PlaceInit == Init => ThreadsInPlace
  BY HubAssumption DEF Init, ThreadsInPlace, HubAssumption, Threads

\* The hub's lock keeps builders and reloads apart.
LEMMA PlaceStep ==
  ASSUME CatalogType, ThreadsInPlace, [Next]_vars
  PROVE  ThreadsInPlace'
<1>1. CASE UNCHANGED vars
    BY <1>1, HubAssumption DEF CatalogType, Threads, HubAssumption, ThreadsInPlace,
       vars
<1>2. ASSUME NEW a \in Callers, CallTool(a) PROVE ThreadsInPlace'
    BY <1>2, HubAssumption DEF CatalogType, Threads, HubAssumption, ThreadsInPlace,
       CallTool, catalogVars, hubVars, wireVars, endVars
<1>3. CASE StartReload
    BY <1>3, HubAssumption DEF CatalogType, Threads, HubAssumption, ThreadsInPlace,
       StartReload, catalogVars, endVars, wireVars
<1>4. CASE Shutdown
    BY <1>4, HubAssumption DEF CatalogType, Threads, HubAssumption, ThreadsInPlace,
       Shutdown, catalogVars, hubVars, endVars, wireVars
<1>5. ASSUME NEW a \in Threads, Enter(a) PROVE ThreadsInPlace'
    BY <1>5, HubAssumption DEF CatalogType, Threads, HubAssumption, ThreadsInPlace,
       Enter, catalogVars, endVars, wireVars
<1>6. ASSUME NEW a \in Threads, BuildCatalog(a) PROVE ThreadsInPlace'
    BY <1>6, HubAssumption DEF CatalogType, Threads, HubAssumption, ThreadsInPlace,
       BuildCatalog, catalogVars, endVars
<1>7. ASSUME NEW a \in Threads, BuildRaises(a) PROVE ThreadsInPlace'
    BY <1>7, HubAssumption DEF CatalogType, Threads, HubAssumption, ThreadsInPlace,
       BuildRaises, catalogVars, endVars, wireVars
<1>8. ASSUME NEW a \in Threads, Publish(a) PROVE ThreadsInPlace'
    BY <1>8, HubAssumption DEF CatalogType, Threads, HubAssumption, ThreadsInPlace,
       Publish, endVars, wireVars
<1>9. ASSUME NEW a \in Threads, Acquire(a) PROVE ThreadsInPlace'
    BY <1>9, HubAssumption DEF CatalogType, Threads, HubAssumption, ThreadsInPlace,
       Acquire, hubVars, endVars, wireVars
<1>10. ASSUME NEW a \in Threads, AcquireFails(a) PROVE ThreadsInPlace'
    BY <1>10, HubAssumption DEF CatalogType, Threads, HubAssumption, ThreadsInPlace,
       AcquireFails, catalogVars, endVars, wireVars, AfterCall
<1>11. ASSUME NEW a \in Threads, Send(a) PROVE ThreadsInPlace'
    BY <1>11, HubAssumption DEF CatalogType, Threads, HubAssumption, ThreadsInPlace,
       Send, catalogVars, hubVars, endVars
<1>12. ASSUME NEW a \in Threads, Receive(a) PROVE ThreadsInPlace'
    BY <1>12, HubAssumption DEF CatalogType, Threads, HubAssumption, ThreadsInPlace,
       Receive, catalogVars, hubVars, endVars
<1>13. ASSUME NEW a \in Threads, Timeout(a) PROVE ThreadsInPlace'
    BY <1>13, HubAssumption DEF CatalogType, Threads, HubAssumption, ThreadsInPlace,
       Timeout, catalogVars, hubVars, endVars
<1>14. ASSUME NEW a \in Threads, Release(a) PROVE ThreadsInPlace'
    BY <1>14, HubAssumption DEF CatalogType, Threads, HubAssumption, ThreadsInPlace,
       Release, endVars, wireVars, AfterCall
<1>15. ASSUME NEW a \in Threads, Revoke(a) PROVE ThreadsInPlace'
    BY <1>15, HubAssumption DEF CatalogType, Threads, HubAssumption, ThreadsInPlace,
       Revoke, endVars, wireVars, SwapCatalog
<1>16. ASSUME NEW a \in Threads, Drained(a) PROVE ThreadsInPlace'
    BY <1>16, HubAssumption DEF CatalogType, Threads, HubAssumption, ThreadsInPlace,
       Drained, endVars, wireVars, SwapCatalog
<1>17. ASSUME NEW a \in Threads, Retire(a) PROVE ThreadsInPlace'
    BY <1>17, HubAssumption DEF CatalogType, Threads, HubAssumption, ThreadsInPlace,
       Retire, catalogVars
<1>18. ASSUME NEW a \in Threads, RetireRaises(a) PROVE ThreadsInPlace'
    BY <1>18, HubAssumption DEF CatalogType, Threads, HubAssumption, ThreadsInPlace,
       RetireRaises, catalogVars, wireVars
<1>19. ASSUME NEW g \in Gens, ServerStep(g) PROVE ThreadsInPlace'
    BY <1>19, HubAssumption DEF CatalogType, Threads, HubAssumption, ThreadsInPlace,
       ServerStep, ServerAnswers, ServerNotifies, ServerDies, catalogVars, hubVars,
       endVars
<1> QED
    BY <1>1, <1>2, <1>3, <1>4, <1>5, <1>6, <1>7, <1>8, <1>9, <1>10, <1>11, <1>12,
       <1>13, <1>14, <1>15, <1>16, <1>17, <1>18, <1>19 DEF Next, ThreadStep

LEMMA FirstInit == Init => InitializeComesFirst
  BY HubAssumption DEF Init, InitializeComesFirst, HubAssumption, Threads

\* initialized is set with the first publication, under the lock of its builder.
LEMMA FirstStep ==
  ASSUME CatalogType, ThreadsInPlace, InitializeComesFirst, [Next]_vars
  PROVE  InitializeComesFirst'
<1>1. CASE UNCHANGED vars
    BY <1>1, HubAssumption DEF CatalogType, Threads, HubAssumption, ThreadsInPlace,
       InitializeComesFirst, vars
<1>2. ASSUME NEW a \in Callers, CallTool(a) PROVE InitializeComesFirst'
    BY <1>2, HubAssumption DEF CatalogType, Threads, HubAssumption, ThreadsInPlace,
       InitializeComesFirst, CallTool, catalogVars, hubVars, wireVars, endVars
<1>3. CASE StartReload
    BY <1>3, HubAssumption DEF CatalogType, Threads, HubAssumption, ThreadsInPlace,
       InitializeComesFirst, StartReload, catalogVars, endVars, wireVars
<1>4. CASE Shutdown
    BY <1>4, HubAssumption DEF CatalogType, Threads, HubAssumption, ThreadsInPlace,
       InitializeComesFirst, Shutdown, catalogVars, hubVars, endVars, wireVars
<1>5. ASSUME NEW a \in Threads, Enter(a) PROVE InitializeComesFirst'
    BY <1>5, HubAssumption DEF CatalogType, Threads, HubAssumption, ThreadsInPlace,
       InitializeComesFirst, Enter, catalogVars, endVars, wireVars
<1>6. ASSUME NEW a \in Threads, BuildCatalog(a) PROVE InitializeComesFirst'
    BY <1>6, HubAssumption DEF CatalogType, Threads, HubAssumption, ThreadsInPlace,
       InitializeComesFirst, BuildCatalog, catalogVars, endVars
<1>7. ASSUME NEW a \in Threads, BuildRaises(a) PROVE InitializeComesFirst'
    BY <1>7, HubAssumption DEF CatalogType, Threads, HubAssumption, ThreadsInPlace,
       InitializeComesFirst, BuildRaises, catalogVars, endVars, wireVars
<1>8. ASSUME NEW a \in Threads, Publish(a) PROVE InitializeComesFirst'
    BY <1>8, HubAssumption DEF CatalogType, Threads, HubAssumption, ThreadsInPlace,
       InitializeComesFirst, Publish, endVars, wireVars
<1>9. ASSUME NEW a \in Threads, Acquire(a) PROVE InitializeComesFirst'
    BY <1>9, HubAssumption DEF CatalogType, Threads, HubAssumption, ThreadsInPlace,
       InitializeComesFirst, Acquire, hubVars, endVars, wireVars
<1>10. ASSUME NEW a \in Threads, AcquireFails(a) PROVE InitializeComesFirst'
    BY <1>10, HubAssumption DEF CatalogType, Threads, HubAssumption, ThreadsInPlace,
       InitializeComesFirst, AcquireFails, catalogVars, endVars, wireVars, AfterCall
<1>11. ASSUME NEW a \in Threads, Send(a) PROVE InitializeComesFirst'
    BY <1>11, HubAssumption DEF CatalogType, Threads, HubAssumption, ThreadsInPlace,
       InitializeComesFirst, Send, catalogVars, hubVars, endVars
<1>12. ASSUME NEW a \in Threads, Receive(a) PROVE InitializeComesFirst'
    BY <1>12, HubAssumption DEF CatalogType, Threads, HubAssumption, ThreadsInPlace,
       InitializeComesFirst, Receive, catalogVars, hubVars, endVars
<1>13. ASSUME NEW a \in Threads, Timeout(a) PROVE InitializeComesFirst'
    BY <1>13, HubAssumption DEF CatalogType, Threads, HubAssumption, ThreadsInPlace,
       InitializeComesFirst, Timeout, catalogVars, hubVars, endVars
<1>14. ASSUME NEW a \in Threads, Release(a) PROVE InitializeComesFirst'
    BY <1>14, HubAssumption DEF CatalogType, Threads, HubAssumption, ThreadsInPlace,
       InitializeComesFirst, Release, endVars, wireVars, AfterCall
<1>15. ASSUME NEW a \in Threads, Revoke(a) PROVE InitializeComesFirst'
    BY <1>15, HubAssumption DEF CatalogType, Threads, HubAssumption, ThreadsInPlace,
       InitializeComesFirst, Revoke, endVars, wireVars, SwapCatalog
<1>16. ASSUME NEW a \in Threads, Drained(a) PROVE InitializeComesFirst'
    BY <1>16, HubAssumption DEF CatalogType, Threads, HubAssumption, ThreadsInPlace,
       InitializeComesFirst, Drained, endVars, wireVars, SwapCatalog
<1>17. ASSUME NEW a \in Threads, Retire(a) PROVE InitializeComesFirst'
    BY <1>17, HubAssumption DEF CatalogType, Threads, HubAssumption, ThreadsInPlace,
       InitializeComesFirst, Retire, catalogVars
<1>18. ASSUME NEW a \in Threads, RetireRaises(a) PROVE InitializeComesFirst'
    BY <1>18, HubAssumption DEF CatalogType, Threads, HubAssumption, ThreadsInPlace,
       InitializeComesFirst, RetireRaises, catalogVars, wireVars
<1>19. ASSUME NEW g \in Gens, ServerStep(g) PROVE InitializeComesFirst'
    BY <1>19, HubAssumption DEF CatalogType, Threads, HubAssumption, ThreadsInPlace,
       InitializeComesFirst, ServerStep, ServerAnswers, ServerNotifies, ServerDies,
       catalogVars, hubVars, endVars
<1> QED
    BY <1>1, <1>2, <1>3, <1>4, <1>5, <1>6, <1>7, <1>8, <1>9, <1>10, <1>11, <1>12,
       <1>13, <1>14, <1>15, <1>16, <1>17, <1>18, <1>19 DEF Next, ThreadStep

(***************************************************************************)
(* Leases.                                                                 *)
(***************************************************************************)
LEMMA HoldersFinite == IsFiniteSet(Holders) /\ IsFiniteSet(Threads)
<1>1. IsFiniteSet(Threads)
  <2>1. IsFiniteSet((Callers \cup {Loop}) \cup {Shut})
      BY HubAssumption, FS_AddElement DEF HubAssumption
  <2>2. Threads = (Callers \cup {Loop}) \cup {Shut}
      BY DEF Threads
  <2> QED BY <2>1, <2>2
<1>2. Holders \in SUBSET Threads
    BY DEF Holders
<1> QED BY <1>1, <1>2, FS_Subset

LEMMA CountInit == Init => LeasesCounted
<1> SUFFICES ASSUME Init PROVE LeasesCounted
    OBVIOUS
<1>1. Holders = {}
    BY DEF Init, Holders
<1> QED BY <1>1, FS_EmptySet DEF LeasesCounted, Init

\* A lease is taken and given back once.
LEMMA CountStep ==
  ASSUME CatalogType, LeasesCounted, [Next]_vars
  PROVE  LeasesCounted'
<1>1. CASE UNCHANGED vars
  <2>1. tokens' = tokens /\ Holders' = Holders
      BY <1>1 DEF CatalogType, Holders, vars
  <2> QED BY <2>1 DEF LeasesCounted
<1>2. ASSUME NEW a \in Callers, CallTool(a) PROVE LeasesCounted'
  <2>1. tokens' = tokens /\ Holders' = Holders
      BY <1>2 DEF CatalogType, Holders, CallTool, catalogVars
  <2> QED BY <2>1 DEF LeasesCounted
<1>3. CASE StartReload
  <2>1. tokens' = tokens /\ Holders' = Holders
      BY <1>3 DEF CatalogType, Holders, StartReload, catalogVars
  <2> QED BY <2>1 DEF LeasesCounted
<1>4. CASE Shutdown
  <2>1. tokens' = tokens /\ Holders' = Holders
      BY <1>4 DEF CatalogType, Holders, Shutdown, catalogVars
  <2> QED BY <2>1 DEF LeasesCounted
<1>5. ASSUME NEW a \in Threads, Enter(a) PROVE LeasesCounted'
  <2>1. tokens' = tokens /\ Holders' = Holders
      BY <1>5 DEF CatalogType, Holders, Enter, catalogVars
  <2> QED BY <2>1 DEF LeasesCounted
<1>6. ASSUME NEW a \in Threads, BuildCatalog(a) PROVE LeasesCounted'
  <2>1. tokens' = tokens /\ Holders' = Holders
      BY <1>6 DEF CatalogType, Holders, BuildCatalog, catalogVars
  <2> QED BY <2>1 DEF LeasesCounted
<1>7. ASSUME NEW a \in Threads, BuildRaises(a) PROVE LeasesCounted'
  <2>1. tokens' = tokens /\ Holders' = Holders
      BY <1>7 DEF CatalogType, Holders, BuildRaises, catalogVars
  <2> QED BY <2>1 DEF LeasesCounted
<1>8. ASSUME NEW a \in Threads, Publish(a) PROVE LeasesCounted'
  <2>1. tokens' = tokens /\ Holders' = Holders
      BY <1>8 DEF CatalogType, Holders, Publish
  <2> QED BY <2>1 DEF LeasesCounted
<1>9. ASSUME NEW a \in Threads, Acquire(a) PROVE LeasesCounted'
  <2>1. a \notin Holders /\ Holders' = Holders \cup {a} /\ tokens' = tokens + 1
      BY <1>9 DEF CatalogType, Holders, Acquire
  <2> QED BY <2>1, HoldersFinite, FS_AddElement DEF LeasesCounted
<1>10. ASSUME NEW a \in Threads, AcquireFails(a) PROVE LeasesCounted'
  <2>1. tokens' = tokens /\ Holders' = Holders
      BY <1>10 DEF CatalogType, Holders, AcquireFails, catalogVars, AfterCall
  <2> QED BY <2>1 DEF LeasesCounted
<1>11. ASSUME NEW a \in Threads, Send(a) PROVE LeasesCounted'
  <2>1. tokens' = tokens /\ Holders' = Holders
      BY <1>11 DEF CatalogType, Holders, Send, catalogVars
  <2> QED BY <2>1 DEF LeasesCounted
<1>12. ASSUME NEW a \in Threads, Receive(a) PROVE LeasesCounted'
  <2>1. tokens' = tokens /\ Holders' = Holders
      BY <1>12 DEF CatalogType, Holders, Receive, catalogVars
  <2> QED BY <2>1 DEF LeasesCounted
<1>13. ASSUME NEW a \in Threads, Timeout(a) PROVE LeasesCounted'
  <2>1. tokens' = tokens /\ Holders' = Holders
      BY <1>13 DEF CatalogType, Holders, Timeout, catalogVars
  <2> QED BY <2>1 DEF LeasesCounted
<1>14. ASSUME NEW a \in Threads, Release(a) PROVE LeasesCounted'
  <2>1. a \in Holders /\ Holders' = Holders \ {a}
      BY <1>14 DEF CatalogType, Holders, Release, AfterCall
  <2>2. tokens # 0 /\ Cardinality(Holders') = Cardinality(Holders) - 1
      BY <2>1, HoldersFinite, FS_RemoveElement, FS_EmptySet DEF LeasesCounted
  <2> QED BY <1>14, <2>2 DEF LeasesCounted, Release
<1>15. ASSUME NEW a \in Threads, Revoke(a) PROVE LeasesCounted'
  <2>1. tokens' = tokens /\ Holders' = Holders
      BY <1>15 DEF CatalogType, Holders, Revoke, SwapCatalog
  <2> QED BY <2>1 DEF LeasesCounted
<1>16. ASSUME NEW a \in Threads, Drained(a) PROVE LeasesCounted'
  <2>1. tokens' = tokens /\ Holders' = Holders
      BY <1>16 DEF CatalogType, Holders, Drained, SwapCatalog
  <2> QED BY <2>1 DEF LeasesCounted
<1>17. ASSUME NEW a \in Threads, Retire(a) PROVE LeasesCounted'
  <2>1. tokens' = tokens /\ Holders' = Holders
      BY <1>17 DEF CatalogType, Holders, Retire, catalogVars
  <2> QED BY <2>1 DEF LeasesCounted
<1>18. ASSUME NEW a \in Threads, RetireRaises(a) PROVE LeasesCounted'
  <2>1. tokens' = tokens /\ Holders' = Holders
      BY <1>18 DEF CatalogType, Holders, RetireRaises, catalogVars
  <2> QED BY <2>1 DEF LeasesCounted
<1>19. ASSUME NEW g \in Gens, ServerStep(g) PROVE LeasesCounted'
  <2>1. tokens' = tokens /\ Holders' = Holders
      BY <1>19 DEF CatalogType, Holders, ServerStep, ServerAnswers, ServerNotifies,
         ServerDies, catalogVars
  <2> QED BY <2>1 DEF LeasesCounted
<1> QED
    BY <1>1, <1>2, <1>3, <1>4, <1>5, <1>6, <1>7, <1>8, <1>9, <1>10, <1>11, <1>12,
       <1>13, <1>14, <1>15, <1>16, <1>17, <1>18, <1>19 DEF Next, ThreadStep

\* A drained catalog has no lease.
LEMMA DrainedIsFree == LeasesCounted /\ tokens = 0 => Holders = {}
  BY HoldersFinite, FS_EmptySet DEF LeasesCounted

(***************************************************************************)
(* Generations.                                                            *)
(***************************************************************************)
LEMMA OneInit == Init => OnePlace
  BY HubAssumption DEF Init, OnePlace, HubAssumption, Threads

\* A build makes a new generation, a swap moves two, a retirement ends one.
LEMMA OneStep ==
  ASSUME CatalogType, ThreadsInPlace, OnePlace, [Next]_vars
  PROVE  OnePlace'
<1>1. CASE UNCHANGED vars
    BY <1>1, HubAssumption DEF CatalogType, Threads, HubAssumption, ThreadsInPlace,
       OnePlace, vars
<1>2. ASSUME NEW a \in Callers, CallTool(a) PROVE OnePlace'
    BY <1>2, HubAssumption DEF CatalogType, Threads, HubAssumption, ThreadsInPlace,
       OnePlace, CallTool, catalogVars, hubVars, wireVars, endVars
<1>3. CASE StartReload
    BY <1>3, HubAssumption DEF CatalogType, Threads, HubAssumption, ThreadsInPlace,
       OnePlace, StartReload, catalogVars, endVars, wireVars
<1>4. CASE Shutdown
    BY <1>4, HubAssumption DEF CatalogType, Threads, HubAssumption, ThreadsInPlace,
       OnePlace, Shutdown, catalogVars, hubVars, endVars, wireVars
<1>5. ASSUME NEW a \in Threads, Enter(a) PROVE OnePlace'
    BY <1>5, HubAssumption DEF CatalogType, Threads, HubAssumption, ThreadsInPlace,
       OnePlace, Enter, catalogVars, endVars, wireVars
<1>6. ASSUME NEW a \in Threads, BuildCatalog(a) PROVE OnePlace'
    BY <1>6, HubAssumption DEF CatalogType, Threads, HubAssumption, ThreadsInPlace,
       OnePlace, BuildCatalog, catalogVars, endVars
<1>7. ASSUME NEW a \in Threads, BuildRaises(a) PROVE OnePlace'
    BY <1>7, HubAssumption DEF CatalogType, Threads, HubAssumption, ThreadsInPlace,
       OnePlace, BuildRaises, catalogVars, endVars, wireVars
<1>8. ASSUME NEW a \in Threads, Publish(a) PROVE OnePlace'
    BY <1>8, HubAssumption DEF CatalogType, Threads, HubAssumption, ThreadsInPlace,
       OnePlace, Publish, endVars, wireVars
<1>9. ASSUME NEW a \in Threads, Acquire(a) PROVE OnePlace'
    BY <1>9, HubAssumption DEF CatalogType, Threads, HubAssumption, ThreadsInPlace,
       OnePlace, Acquire, hubVars, endVars, wireVars
<1>10. ASSUME NEW a \in Threads, AcquireFails(a) PROVE OnePlace'
    BY <1>10, HubAssumption DEF CatalogType, Threads, HubAssumption, ThreadsInPlace,
       OnePlace, AcquireFails, catalogVars, endVars, wireVars, AfterCall
<1>11. ASSUME NEW a \in Threads, Send(a) PROVE OnePlace'
    BY <1>11, HubAssumption DEF CatalogType, Threads, HubAssumption, ThreadsInPlace,
       OnePlace, Send, catalogVars, hubVars, endVars
<1>12. ASSUME NEW a \in Threads, Receive(a) PROVE OnePlace'
    BY <1>12, HubAssumption DEF CatalogType, Threads, HubAssumption, ThreadsInPlace,
       OnePlace, Receive, catalogVars, hubVars, endVars
<1>13. ASSUME NEW a \in Threads, Timeout(a) PROVE OnePlace'
    BY <1>13, HubAssumption DEF CatalogType, Threads, HubAssumption, ThreadsInPlace,
       OnePlace, Timeout, catalogVars, hubVars, endVars
<1>14. ASSUME NEW a \in Threads, Release(a) PROVE OnePlace'
    BY <1>14, HubAssumption DEF CatalogType, Threads, HubAssumption, ThreadsInPlace,
       OnePlace, Release, endVars, wireVars, AfterCall
<1>15. ASSUME NEW a \in Threads, Revoke(a) PROVE OnePlace'
    BY <1>15, HubAssumption DEF CatalogType, Threads, HubAssumption, ThreadsInPlace,
       OnePlace, Revoke, endVars, wireVars, SwapCatalog
<1>16. ASSUME NEW a \in Threads, Drained(a) PROVE OnePlace'
    BY <1>16, HubAssumption DEF CatalogType, Threads, HubAssumption, ThreadsInPlace,
       OnePlace, Drained, endVars, wireVars, SwapCatalog
<1>17. ASSUME NEW a \in Threads, Retire(a) PROVE OnePlace'
    BY <1>17, HubAssumption DEF CatalogType, Threads, HubAssumption, ThreadsInPlace,
       OnePlace, Retire, catalogVars
<1>18. ASSUME NEW a \in Threads, RetireRaises(a) PROVE OnePlace'
    BY <1>18, HubAssumption DEF CatalogType, Threads, HubAssumption, ThreadsInPlace,
       OnePlace, RetireRaises, catalogVars, wireVars
<1>19. ASSUME NEW g \in Gens, ServerStep(g) PROVE OnePlace'
    BY <1>19, HubAssumption DEF CatalogType, Threads, HubAssumption, ThreadsInPlace,
       OnePlace, ServerStep, ServerAnswers, ServerNotifies, ServerDies, catalogVars,
       hubVars, endVars
<1> QED
    BY <1>1, <1>2, <1>3, <1>4, <1>5, <1>6, <1>7, <1>8, <1>9, <1>10, <1>11, <1>12,
       <1>13, <1>14, <1>15, <1>16, <1>17, <1>18, <1>19 DEF Next, ThreadStep

LEMMA LeaseInit == Init => LeaseIsPublished
  BY DEF Init, LeaseIsPublished, Holders

\* The catalog is replaced only where no lease is.
LEMMA LeaseStep ==
  ASSUME CatalogType, ThreadsInPlace, InitializeComesFirst, LeasesCounted, LeaseIsPublished, [Next]_vars
  PROVE  LeaseIsPublished'
<1>1. CASE UNCHANGED vars
    BY <1>1 DEF CatalogType, LeaseIsPublished, Holders, ThreadsInPlace, vars
<1>2. ASSUME NEW a \in Callers, CallTool(a) PROVE LeaseIsPublished'
    BY <1>2 DEF CatalogType, LeaseIsPublished, Holders, ThreadsInPlace, CallTool,
       catalogVars, hubVars, wireVars, endVars
<1>3. CASE StartReload
    BY <1>3 DEF CatalogType, LeaseIsPublished, Holders, ThreadsInPlace, StartReload,
       catalogVars, endVars, wireVars
<1>4. CASE Shutdown
    BY <1>4 DEF CatalogType, LeaseIsPublished, Holders, ThreadsInPlace, Shutdown,
       catalogVars, hubVars, endVars, wireVars
<1>5. ASSUME NEW a \in Threads, Enter(a) PROVE LeaseIsPublished'
    BY <1>5 DEF CatalogType, LeaseIsPublished, Holders, ThreadsInPlace, Enter,
       catalogVars, endVars, wireVars
<1>6. ASSUME NEW a \in Threads, BuildCatalog(a) PROVE LeaseIsPublished'
    BY <1>6 DEF CatalogType, LeaseIsPublished, Holders, ThreadsInPlace,
       BuildCatalog, catalogVars, endVars
<1>7. ASSUME NEW a \in Threads, BuildRaises(a) PROVE LeaseIsPublished'
    BY <1>7 DEF CatalogType, LeaseIsPublished, Holders, ThreadsInPlace, BuildRaises,
       catalogVars, endVars, wireVars
<1>8. ASSUME NEW a \in Threads, Publish(a) PROVE LeaseIsPublished'
    BY <1>8, HubAssumption DEF CatalogType, LeaseIsPublished, Holders,
       ThreadsInPlace, Publish, endVars, wireVars, InitializeComesFirst,
       HubAssumption, Threads
<1>9. ASSUME NEW a \in Threads, Acquire(a) PROVE LeaseIsPublished'
    BY <1>9 DEF CatalogType, LeaseIsPublished, Holders, ThreadsInPlace, Acquire,
       hubVars, endVars, wireVars
<1>10. ASSUME NEW a \in Threads, AcquireFails(a) PROVE LeaseIsPublished'
    BY <1>10 DEF CatalogType, LeaseIsPublished, Holders, ThreadsInPlace,
       AcquireFails, catalogVars, endVars, wireVars, AfterCall
<1>11. ASSUME NEW a \in Threads, Send(a) PROVE LeaseIsPublished'
    BY <1>11 DEF CatalogType, LeaseIsPublished, Holders, ThreadsInPlace, Send,
       catalogVars, hubVars, endVars
<1>12. ASSUME NEW a \in Threads, Receive(a) PROVE LeaseIsPublished'
    BY <1>12 DEF CatalogType, LeaseIsPublished, Holders, ThreadsInPlace, Receive,
       catalogVars, hubVars, endVars
<1>13. ASSUME NEW a \in Threads, Timeout(a) PROVE LeaseIsPublished'
    BY <1>13 DEF CatalogType, LeaseIsPublished, Holders, ThreadsInPlace, Timeout,
       catalogVars, hubVars, endVars
<1>14. ASSUME NEW a \in Threads, Release(a) PROVE LeaseIsPublished'
    BY <1>14 DEF CatalogType, LeaseIsPublished, Holders, ThreadsInPlace, Release,
       endVars, wireVars, AfterCall
<1>15. ASSUME NEW a \in Threads, Revoke(a) PROVE LeaseIsPublished'
    BY <1>15, DrainedIsFree DEF CatalogType, LeaseIsPublished, Holders,
       ThreadsInPlace, Revoke, endVars, wireVars, SwapCatalog
<1>16. ASSUME NEW a \in Threads, Drained(a) PROVE LeaseIsPublished'
    BY <1>16, DrainedIsFree DEF CatalogType, LeaseIsPublished, Holders,
       ThreadsInPlace, Drained, endVars, wireVars, SwapCatalog
<1>17. ASSUME NEW a \in Threads, Retire(a) PROVE LeaseIsPublished'
    BY <1>17 DEF CatalogType, LeaseIsPublished, Holders, ThreadsInPlace, Retire,
       catalogVars
<1>18. ASSUME NEW a \in Threads, RetireRaises(a) PROVE LeaseIsPublished'
    BY <1>18 DEF CatalogType, LeaseIsPublished, Holders, ThreadsInPlace,
       RetireRaises, catalogVars, wireVars
<1>19. ASSUME NEW g \in Gens, ServerStep(g) PROVE LeaseIsPublished'
    BY <1>19 DEF CatalogType, LeaseIsPublished, Holders, ThreadsInPlace, ServerStep,
       ServerAnswers, ServerNotifies, ServerDies, catalogVars, hubVars, endVars
<1> QED
    BY <1>1, <1>2, <1>3, <1>4, <1>5, <1>6, <1>7, <1>8, <1>9, <1>10, <1>11, <1>12,
       <1>13, <1>14, <1>15, <1>16, <1>17, <1>18, <1>19 DEF Next, ThreadStep

(***************************************************************************)
(* The theorems.                                                           *)
(***************************************************************************)
\* The parts above together are an invariant of the hub.
THEOREM HubInvariant == Spec => []IInv
<1>1. Init => IInv
    BY TypeInit, PlaceInit, FirstInit, CountInit, OneInit, LeaseInit DEF IInv
<1>2. IInv /\ [Next]_vars => IInv'
    BY TypeStep, PlaceStep, FirstStep, CountStep, OneStep, LeaseStep DEF IInv
<1> QED BY <1>1, <1>2, PTL DEF Spec

\* No tool call runs on a transport that revoke_catalog_routes() has begun to
\* retire, whatever the threads, the reloads and the servers do.
THEOREM NoCallOnRetiredHolds == Spec => []NoCallOnRetired
<1>1. IInv => NoCallOnRetired
    BY DEF IInv, OnePlace, LeaseIsPublished, NoCallOnRetired, Holders
<1> QED BY <1>1, HubInvariant, PTL

LEMMA NoForgottenInit == Init => NoForgottenTransport
  BY DEF Init, NoForgottenTransport

\* Where a generation leaves one place, it enters the next in the same step.
LEMMA NoForgottenStep ==
  ASSUME IInv, NoForgottenTransport, [Next]_vars
  PROVE  NoForgottenTransport'
<1>1. CASE UNCHANGED vars
    BY <1>1, HubAssumption DEF CatalogType, Threads, HubAssumption, IInv,
       ThreadsInPlace, NoForgottenTransport, vars
<1>2. ASSUME NEW a \in Callers, CallTool(a) PROVE NoForgottenTransport'
    BY <1>2, HubAssumption DEF CatalogType, Threads, HubAssumption, IInv,
       ThreadsInPlace, NoForgottenTransport, CallTool, catalogVars, hubVars,
       wireVars, endVars
<1>3. CASE StartReload
    BY <1>3, HubAssumption DEF CatalogType, Threads, HubAssumption, IInv,
       ThreadsInPlace, NoForgottenTransport, StartReload, catalogVars, endVars,
       wireVars
<1>4. CASE Shutdown
    BY <1>4, HubAssumption DEF CatalogType, Threads, HubAssumption, IInv,
       ThreadsInPlace, NoForgottenTransport, Shutdown, catalogVars, hubVars,
       endVars, wireVars
<1>5. ASSUME NEW a \in Threads, Enter(a) PROVE NoForgottenTransport'
    BY <1>5, HubAssumption DEF CatalogType, Threads, HubAssumption, IInv,
       ThreadsInPlace, NoForgottenTransport, Enter, catalogVars, endVars, wireVars
<1>6. ASSUME NEW a \in Threads, BuildCatalog(a) PROVE NoForgottenTransport'
    BY <1>6, HubAssumption DEF CatalogType, Threads, HubAssumption, IInv,
       ThreadsInPlace, NoForgottenTransport, BuildCatalog, catalogVars, endVars
<1>7. ASSUME NEW a \in Threads, BuildRaises(a) PROVE NoForgottenTransport'
    BY <1>7, HubAssumption DEF CatalogType, Threads, HubAssumption, IInv,
       ThreadsInPlace, NoForgottenTransport, BuildRaises, catalogVars, endVars,
       wireVars
<1>8. ASSUME NEW a \in Threads, Publish(a) PROVE NoForgottenTransport'
    BY <1>8, HubAssumption DEF CatalogType, Threads, HubAssumption, IInv,
       ThreadsInPlace, NoForgottenTransport, Publish, endVars, wireVars,
       InitializeComesFirst
<1>9. ASSUME NEW a \in Threads, Acquire(a) PROVE NoForgottenTransport'
    BY <1>9, HubAssumption DEF CatalogType, Threads, HubAssumption, IInv,
       ThreadsInPlace, NoForgottenTransport, Acquire, hubVars, endVars, wireVars
<1>10. ASSUME NEW a \in Threads, AcquireFails(a) PROVE NoForgottenTransport'
    BY <1>10, HubAssumption DEF CatalogType, Threads, HubAssumption, IInv,
       ThreadsInPlace, NoForgottenTransport, AcquireFails, catalogVars, endVars,
       wireVars, AfterCall
<1>11. ASSUME NEW a \in Threads, Send(a) PROVE NoForgottenTransport'
    BY <1>11, HubAssumption DEF CatalogType, Threads, HubAssumption, IInv,
       ThreadsInPlace, NoForgottenTransport, Send, catalogVars, hubVars, endVars
<1>12. ASSUME NEW a \in Threads, Receive(a) PROVE NoForgottenTransport'
    BY <1>12, HubAssumption DEF CatalogType, Threads, HubAssumption, IInv,
       ThreadsInPlace, NoForgottenTransport, Receive, catalogVars, hubVars, endVars
<1>13. ASSUME NEW a \in Threads, Timeout(a) PROVE NoForgottenTransport'
    BY <1>13, HubAssumption DEF CatalogType, Threads, HubAssumption, IInv,
       ThreadsInPlace, NoForgottenTransport, Timeout, catalogVars, hubVars, endVars
<1>14. ASSUME NEW a \in Threads, Release(a) PROVE NoForgottenTransport'
    BY <1>14, HubAssumption DEF CatalogType, Threads, HubAssumption, IInv,
       ThreadsInPlace, NoForgottenTransport, Release, endVars, wireVars, AfterCall
<1>15. ASSUME NEW a \in Threads, Revoke(a) PROVE NoForgottenTransport'
    BY <1>15, HubAssumption DEF CatalogType, Threads, HubAssumption, IInv,
       ThreadsInPlace, NoForgottenTransport, Revoke, endVars, wireVars, SwapCatalog
<1>16. ASSUME NEW a \in Threads, Drained(a) PROVE NoForgottenTransport'
    BY <1>16, HubAssumption DEF CatalogType, Threads, HubAssumption, IInv,
       ThreadsInPlace, NoForgottenTransport, Drained, endVars, wireVars, SwapCatalog
<1>17. ASSUME NEW a \in Threads, Retire(a) PROVE NoForgottenTransport'
    BY <1>17, HubAssumption DEF CatalogType, Threads, HubAssumption, IInv,
       ThreadsInPlace, NoForgottenTransport, Retire, catalogVars
<1>18. ASSUME NEW a \in Threads, RetireRaises(a) PROVE NoForgottenTransport'
    BY <1>18, HubAssumption DEF CatalogType, Threads, HubAssumption, IInv,
       ThreadsInPlace, NoForgottenTransport, RetireRaises, catalogVars, wireVars
<1>19. ASSUME NEW g \in Gens, ServerStep(g) PROVE NoForgottenTransport'
    BY <1>19, HubAssumption DEF CatalogType, Threads, HubAssumption, IInv,
       ThreadsInPlace, NoForgottenTransport, ServerStep, ServerAnswers,
       ServerNotifies, ServerDies, catalogVars, hubVars, endVars
<1> QED
    BY <1>1, <1>2, <1>3, <1>4, <1>5, <1>6, <1>7, <1>8, <1>9, <1>10, <1>11, <1>12,
       <1>13, <1>14, <1>15, <1>16, <1>17, <1>18, <1>19 DEF Next, ThreadStep

\* Every transport that was built is published, about to be, being retired,
\* retired, or known to have raised in its shutdown: build_catalog_snapshot()
\* and revoke_catalog_routes() leak none.
THEOREM NoForgottenTransportHolds == Spec => []NoForgottenTransport
<1>1. IInv /\ NoForgottenTransport /\ [Next]_vars => NoForgottenTransport'
    BY NoForgottenStep
<1> QED BY <1>1, NoForgottenInit, HubInvariant, PTL DEF Spec

\* Whatever is not retired after the shutdown is the published catalog or the
\* candidate of an initialize() under way.
LEMMA LeftAfterShutdown ==
  ASSUME IInv, NoForgottenTransport, pc[Shut] = "done",
         NEW g \in (1 .. built) \ (retired \cup stuck)
  PROVE  g = published \/ \E a \in Callers : cand[a] = g /\ pc[a] = "publish"
<1>1. pc[Loop] = "idle"
    BY DEF IInv, ThreadsInPlace
<1>2. \A a \in Threads : pc[a] # "retire"
    BY <1>1 DEF IInv, ThreadsInPlace, Threads
<1>3. g # 0
    BY DEF IInv, CatalogType
<1>4. \A a \in Threads : cand[a] = g => a \in Callers /\ pc[a] = "publish"
    BY <1>1, <1>3 DEF IInv, ThreadsInPlace, Threads
<1> QED BY <1>2, <1>4 DEF NoForgottenTransport

\* When MCPHub.shutdown() is through, at most one transport is left running:
\* that of the initialize() which it overtook or which came later.
THEOREM ShutdownLeavesOneHolds == Spec => []ShutdownLeavesOne
<1>1. IInv /\ NoForgottenTransport => ShutdownLeavesOne
  <2> SUFFICES ASSUME IInv, NoForgottenTransport, pc[Shut] = "done",
                      NEW g \in (1 .. built) \ (retired \cup stuck),
                      NEW h \in (1 .. built) \ (retired \cup stuck)
               PROVE  g = h
      BY DEF ShutdownLeavesOne
  <2>1. /\ g = published \/ \E a \in Callers : cand[a] = g /\ pc[a] = "publish"
        /\ h = published \/ \E a \in Callers : cand[a] = h /\ pc[a] = "publish"
      BY LeftAfterShutdown
  <2>2. g # 0 /\ h # 0
      BY DEF IInv, CatalogType
  <2>3. \A a \in Callers : pc[a] = "publish" => published = 0 /\ hubLock = a
      BY DEF IInv, ThreadsInPlace, InitializeComesFirst, Threads
  <2> QED BY <2>1, <2>2, <2>3
<1> QED BY <1>1, HubInvariant, NoForgottenTransportHolds, PTL

(***************************************************************************)
(* The transport behind a route.  A lease is on a transport whose          *)
(* handshake succeeded (RoutesNegotiated), and what the response queue of  *)
(* an undisturbed transport holds is the answer to the one request that is *)
(* waited for (OwnAnswers).                                                *)
(***************************************************************************)
WireTyped ==
    /\ wire \in [Gens -> WireType]
    /\ stopped \in BOOLEAN
    /\ disturbed \subseteq Gens

\* Only a transport that was listed has a route, and the list needs the
\* handshake; one that was shut down negotiates again when it is used.
RoutesNegotiated ==
    /\ \A a \in Holders : gen[a] \in routable
    /\ \A g \in routable : wire[g].proc # "none" => wire[g].negotiated

\* One caller at most waits, nothing given up is still owed, and the answer is
\* owed or in the queue, not both.
OwnAnswers ==
    \A g \in Gens \ disturbed :
        /\ \A a, b \in Waiting(g) : a = b
        /\ wire[g].late = 0
        /\ wire[g].asked \subseteq Waiting(g)
        /\ \/ wire[g].queue = <<>>
           \/ wire[g].asked = {} /\ \E a \in Waiting(g) : wire[g].queue = <<a>>

WireInv ==
    /\ WireTyped
    /\ RoutesNegotiated
    /\ CallsOnlyNegotiated
    /\ OwnAnswers
    /\ MixedOnlyIfDisturbed

\* A step that neither touches a transport nor begins or ends a wait.
Quiet ==
    /\ UNCHANGED wireVars
    /\ routable' = routable
    /\ \A a \in Threads : pc'[a] = "wait" <=> pc[a] = "wait"
    /\ \A a \in Threads : pc[a] = "wait" => gen'[a] = gen[a]
    /\ \A a \in Threads : pc'[a] \in {"send", "wait", "release"} =>
          gen'[a] \in routable \/ (a \in Holders /\ gen'[a] = gen[a])

\* Every other step is one of those that do.
LEMMA WireSteps ==
  ASSUME CatalogType, [Next]_vars
  PROVE  \/ Quiet
         \/ \E a \in Threads : \/ BuildCatalog(a) \/ Send(a) \/ Receive(a)
                               \/ Timeout(a) \/ Retire(a)
         \/ \E g \in Gens : ServerStep(g)
<1> USE DEF CatalogType, Holders
<1>1. CASE UNCHANGED vars
    BY <1>1 DEF Quiet, vars, wireVars
<1>2. ASSUME NEW a \in Callers, CallTool(a) PROVE Quiet
    BY <1>2 DEF Quiet, CallTool, hubVars
<1>3. CASE StartReload \/ Shutdown
    BY <1>3 DEF Quiet, StartReload, Shutdown, hubVars
<1>4. ASSUME NEW a \in Threads, Enter(a) \/ BuildRaises(a) PROVE Quiet
    BY <1>4 DEF Quiet, Enter, BuildRaises
<1>5. ASSUME NEW a \in Threads, Publish(a) PROVE Quiet
    BY <1>5 DEF Quiet, Publish
<1>6. ASSUME NEW a \in Threads, Acquire(a) PROVE Quiet
    BY <1>6 DEF Quiet, Acquire, hubVars
<1>7. ASSUME NEW a \in Threads, AcquireFails(a) PROVE Quiet
    BY <1>7 DEF Quiet, AcquireFails, AfterCall
<1>8. ASSUME NEW a \in Threads, Release(a) PROVE Quiet
    BY <1>8 DEF Quiet, Release, AfterCall
<1>9. ASSUME NEW a \in Threads, Revoke(a) \/ Drained(a) PROVE Quiet
    BY <1>9 DEF Quiet, Revoke, Drained, SwapCatalog
<1>10. ASSUME NEW a \in Threads, RetireRaises(a) PROVE Quiet
    BY <1>10 DEF Quiet, RetireRaises
<1> QED
    BY <1>1, <1>2, <1>3, <1>4, <1>5, <1>6, <1>7, <1>8, <1>9, <1>10
       DEF Next, ThreadStep

LEMMA WireInit == Init => WireInv
<1> SUFFICES ASSUME Init PROVE WireInv
    OBVIOUS
<1>1. NoWire \in WireType
    BY DEF NoWire, WireType
<1>2. WireTyped
    BY <1>1 DEF Init, WireTyped
<1>3. RoutesNegotiated /\ CallsOnlyNegotiated /\ MixedOnlyIfDisturbed
    BY DEF Init, RoutesNegotiated, CallsOnlyNegotiated, MixedOnlyIfDisturbed, Holders
<1>4. OwnAnswers
    BY DEF Init, OwnAnswers, Waiting, NoWire
<1> QED BY <1>2, <1>3, <1>4 DEF WireInv

\* The transport a thread calls is the published one and was built.
LEMMA CalledWasBuilt ==
  ASSUME CatalogType, LeaseIsPublished, NEW a \in Holders
  PROVE  gen[a] = published /\ gen[a] \in Gens
  BY HubAssumption DEF CatalogType, LeaseIsPublished, Holders, Gens, HubAssumption

\* What Abandon leaves of a transport: a is no longer owed an answer, the rest
\* of its state but the queue and the number of late answers stays.
LEMMA AbandonLeaves ==
  ASSUME NEW w \in WireType, NEW a \in Threads, NEW left \in Abandon(w, a)
  PROVE  /\ left \in WireType
         /\ left.proc = w.proc /\ left.negotiated = w.negotiated
         /\ left.asked = w.asked \ {a}
         /\ a \notin w.asked => left.late = w.late
         /\ w.queue = <<>> => left.queue = <<>>
<1> DEFINE queue == [i \in DOMAIN w.queue |-> IF w.queue[i] = a THEN Late ELSE w.queue[i]]
<1>1. PICK n \in {w.late} \cup (IF a \in w.asked /\ w.late < MaxLate THEN {w.late + 1} ELSE {}) :
         left = [w EXCEPT !.asked = @ \ {a}, !.queue = queue, !.late = n]
    BY DEF Abandon
<1>2. w.queue \in Seq(Messages) /\ w.late \in Nat
    BY DEF WireType
<1>3. queue \in Seq(Messages) /\ (w.queue = <<>> => queue = <<>>)
    BY <1>2 DEF Messages
<1>4. n \in Nat /\ (a \notin w.asked => n = w.late)
    BY <1>1, <1>2
<1> HIDE DEF queue
<1>5. /\ left.proc = w.proc /\ left.negotiated = w.negotiated
      /\ left.asked = w.asked \ {a} /\ left.late = n /\ left.queue = queue
    BY <1>1 DEF WireType
<1>6. left \in WireType
    BY <1>1, <1>3, <1>4 DEF WireType
<1> QED BY <1>3, <1>4, <1>5, <1>6

\* A new process has asked nobody anything, and nothing is in its queue.
LEMMA ProcessStarts ==
  ASSUME NEW w \in StartProcess
  PROVE  /\ w \in WireType
         /\ w.asked = {} /\ w.late = 0 /\ w.queue = <<>>
<1>1. w = NoWire \/ \E b \in BOOLEAN : w = [NoWire EXCEPT !.proc = "live", !.negotiated = b]
    BY DEF StartProcess
<1>2. NoWire \in WireType /\ NoWire.asked = {} /\ NoWire.late = 0 /\ NoWire.queue = <<>>
    BY DEF NoWire, WireType
<1>3. ASSUME NEW b \in BOOLEAN, w = [NoWire EXCEPT !.proc = "live", !.negotiated = b]
      PROVE  w \in WireType /\ w.asked = {} /\ w.late = 0 /\ w.queue = <<>>
    BY <1>2, <1>3 DEF WireType
<1> QED BY <1>1, <1>2, <1>3

\* Taking the head of the queue changes nothing else.
LEMMA TailKeeps ==
  ASSUME NEW w \in WireType, w.queue # <<>>, NEW t, t = [w EXCEPT !.queue = Tail(@)]
  PROVE  /\ t \in WireType
         /\ t.proc = w.proc /\ t.negotiated = w.negotiated
         /\ t.asked = w.asked /\ t.late = w.late /\ t.queue = Tail(w.queue)
<1>1. Tail(w.queue) \in Seq(Messages)
    BY DEF WireType
<1> QED BY <1>1 DEF WireType

\* What a request does to the transport: it is owed an answer, and a process
\* that had to be started went through its handshake.
LEMMA SendWrites ==
  ASSUME WireTyped, NEW a \in Threads, gen[a] \in Gens, Send(a),
         wire[gen[a]].proc # "dead"
  PROVE  \E v \in WireType :
            /\ wire' = [wire EXCEPT ![gen[a]] = v]
            /\ wire[gen[a]].negotiated \/ wire[gen[a]].proc = "none" => v.negotiated
            /\ v.asked = wire[gen[a]].asked \cup {a}
            /\ v.late = wire[gen[a]].late /\ v.queue = wire[gen[a]].queue
            /\ v.proc # "none"
<1> DEFINE w == wire[gen[a]]
           up == IF w.proc = "none" THEN [w EXCEPT !.proc = "live", !.negotiated = TRUE] ELSE w
           v == [up EXCEPT !.asked = @ \cup {a}]
<1>1. wire' = [wire EXCEPT ![gen[a]] = v]
    BY DEF Send
<1>2. w \in WireType
    BY DEF WireTyped
<1> HIDE DEF w
<1>3. /\ up \in WireType
      /\ w.negotiated \/ w.proc = "none" => up.negotiated
      /\ up.asked = w.asked /\ up.late = w.late /\ up.queue = w.queue
      /\ up.proc # "none"
    BY <1>2 DEF WireType
<1> HIDE DEF up
<1>4. /\ v \in WireType /\ v.negotiated = up.negotiated
      /\ v.asked = up.asked \cup {a} /\ v.late = up.late /\ v.queue = up.queue
      /\ v.proc = up.proc
    BY <1>3 DEF WireType
<1> HIDE DEF v
<1> QED BY <1>1, <1>3, <1>4 DEF w

\* Receive and Timeout change the transport but not its process.
LEMMA AnswerWrites ==
  ASSUME WireTyped, NEW a \in Threads, gen[a] \in Gens, Receive(a) \/ Timeout(a)
  PROVE  \E v \in WireType :
            /\ wire' = [wire EXCEPT ![gen[a]] = v]
            /\ v.proc = wire[gen[a]].proc /\ v.negotiated = wire[gen[a]].negotiated
<1> DEFINE w == wire[gen[a]]
           t == [w EXCEPT !.queue = Tail(@)]
<1>1. w \in WireType
    BY DEF WireTyped
<1>2. CASE Receive(a)
  <2>1. t \in WireType /\ t.proc = w.proc /\ t.negotiated = w.negotiated
      BY <1>1, <1>2, TailKeeps DEF Receive
  <2>2. PICK left \in Abandon(t, a) : wire' = [wire EXCEPT ![gen[a]] = left]
      BY <1>2 DEF Receive
  <2> HIDE DEF t
  <2>3. left \in WireType /\ left.proc = t.proc /\ left.negotiated = t.negotiated
      BY <2>1, <2>2, AbandonLeaves
  <2> QED BY <2>1, <2>2, <2>3
<1>3. CASE Timeout(a)
  <2>1. PICK left \in Abandon(w, a) : wire' = [wire EXCEPT ![gen[a]] = left]
      BY <1>3 DEF Timeout
  <2>2. left \in WireType /\ left.proc = w.proc /\ left.negotiated = w.negotiated
      BY <1>1, <2>1, AbandonLeaves
  <2> QED BY <2>1, <2>2
<1> QED BY <1>2, <1>3

\* Nothing the server does starts a process or undoes a handshake.
LEMMA ServerWrites ==
  ASSUME WireTyped, NEW g \in Gens, ServerStep(g)
  PROVE  \E v \in WireType :
            /\ wire' = [wire EXCEPT ![g] = v]
            /\ v.negotiated = wire[g].negotiated
            /\ wire[g].proc # "none"
<1> DEFINE w == wire[g]
<1>1. w \in WireType
    BY DEF WireTyped
<1>2. w.queue \in Seq(Messages) /\ w.late \in Nat /\ w.asked \subseteq Threads
    BY <1>1 DEF WireType
<1>3. w.proc = "live"
    BY DEF ServerStep, ServerAnswers, ServerNotifies, ServerDies, Live
<1>4. ASSUME NEW a \in w.asked,
             wire' = [wire EXCEPT ![g].asked = @ \ {a}, ![g].queue = Append(@, a)]
      PROVE  \E v \in WireType : wire' = [wire EXCEPT ![g] = v] /\ v.negotiated = w.negotiated
  <2> DEFINE v == [w EXCEPT !.asked = @ \ {a}, !.queue = Append(@, a)]
  <2>1. wire' = [wire EXCEPT ![g] = v]
      BY <1>4 DEF WireTyped
  <2>2. Append(w.queue, a) \in Seq(Messages)
      BY <1>2 DEF Messages
  <2> HIDE DEF w
  <2>3. v \in WireType /\ v.negotiated = w.negotiated
      BY <1>1, <2>2 DEF WireType
  <2> QED BY <2>1, <2>3
<1>5. ASSUME w.late > 0,
             wire' = [wire EXCEPT ![g].late = @ - 1, ![g].queue = Append(@, Late)]
      PROVE  \E v \in WireType : wire' = [wire EXCEPT ![g] = v] /\ v.negotiated = w.negotiated
  <2> DEFINE v == [w EXCEPT !.late = @ - 1, !.queue = Append(@, Late)]
  <2>1. wire' = [wire EXCEPT ![g] = v]
      BY <1>5 DEF WireTyped
  <2>2. Append(w.queue, Late) \in Seq(Messages) /\ w.late - 1 \in Nat
      BY <1>2, <1>5 DEF Messages
  <2> HIDE DEF w
  <2>3. v \in WireType /\ v.negotiated = w.negotiated
      BY <1>1, <2>2 DEF WireType
  <2> QED BY <2>1, <2>3
<1>6. ASSUME ServerNotifies(g)
      PROVE  \E v \in WireType : wire' = [wire EXCEPT ![g] = v] /\ v.negotiated = w.negotiated
  <2> DEFINE v == [w EXCEPT !.queue = Append(@, Note)]
  <2>1. wire' = [wire EXCEPT ![g] = v]
      BY <1>6 DEF WireTyped, ServerNotifies
  <2>2. Append(w.queue, Note) \in Seq(Messages)
      BY <1>2 DEF Messages
  <2> HIDE DEF w
  <2>3. v \in WireType /\ v.negotiated = w.negotiated
      BY <1>1, <2>2 DEF WireType
  <2> QED BY <2>1, <2>3
<1>7. ASSUME ServerDies(g)
      PROVE  \E v \in WireType : wire' = [wire EXCEPT ![g] = v] /\ v.negotiated = w.negotiated
  <2> DEFINE v == [w EXCEPT !.proc = "dead", !.asked = {}, !.late = 0]
  <2>1. wire' = [wire EXCEPT ![g] = v]
      BY <1>7 DEF WireTyped, ServerDies
  <2> HIDE DEF w
  <2>2. v \in WireType /\ v.negotiated = w.negotiated
      BY <1>1 DEF WireType
  <2> QED BY <2>1, <2>2
<1> QED BY <1>3, <1>4, <1>5, <1>6, <1>7 DEF ServerStep, ServerAnswers

LEMMA WireTypedStep ==
  ASSUME CatalogType, LeaseIsPublished, WireTyped, [Next]_vars
  PROVE  WireTyped'
<1>1. wire' \in [Gens -> WireType]
  <2>1. CASE Quiet
      BY <2>1 DEF Quiet, wireVars, WireTyped
  <2>2. ASSUME NEW a \in Threads, BuildCatalog(a) PROVE wire' \in [Gens -> WireType]
      BY <2>2, ProcessStarts DEF BuildCatalog, WireTyped
  <2>3. ASSUME NEW a \in Threads, Send(a) PROVE wire' \in [Gens -> WireType]
    <3>1. gen[a] \in Gens
        BY <2>3, CalledWasBuilt DEF Send, Holders
    <3>2. CASE wire[gen[a]].proc = "dead"
        BY <2>3, <3>2 DEF Send, WireTyped
    <3>3. CASE wire[gen[a]].proc # "dead"
        BY <2>3, <3>1, <3>3, SendWrites DEF WireTyped
    <3> QED BY <3>2, <3>3
  <2>4. ASSUME NEW a \in Threads, Receive(a) \/ Timeout(a)
        PROVE  wire' \in [Gens -> WireType]
    <3>1. gen[a] \in Gens
        BY <2>4, CalledWasBuilt DEF Receive, Timeout, Holders
    <3> QED BY <2>4, <3>1, AnswerWrites DEF WireTyped
  <2>5. ASSUME NEW a \in Threads, Retire(a) PROVE wire' \in [Gens -> WireType]
      BY <2>5 DEF Retire, WireTyped, NoWire, WireType
  <2>6. ASSUME NEW g \in Gens, ServerStep(g) PROVE wire' \in [Gens -> WireType]
      BY <2>6, ServerWrites DEF WireTyped
  <2> QED BY <2>1, <2>2, <2>3, <2>4, <2>5, <2>6, WireSteps
<1>2. disturbed' \subseteq Gens
  <2>1. CASE Quiet
      BY <2>1 DEF Quiet, wireVars, WireTyped
  <2>2. ASSUME NEW a \in Threads, BuildCatalog(a) \/ Receive(a) \/ Retire(a)
        PROVE  disturbed' \subseteq Gens
      BY <2>2 DEF BuildCatalog, Receive, Retire, WireTyped
  <2>3. ASSUME NEW a \in Threads, Send(a) \/ Timeout(a) PROVE disturbed' \subseteq Gens
      BY <2>3, CalledWasBuilt DEF Send, Timeout, Holders, WireTyped
  <2>4. ASSUME NEW g \in Gens, ServerStep(g) PROVE disturbed' \subseteq Gens
      BY <2>4 DEF ServerStep, ServerAnswers, ServerNotifies, ServerDies, WireTyped
  <2> QED BY <2>1, <2>2, <2>3, <2>4, WireSteps
<1>3. stopped' \in BOOLEAN
  <2>1. CASE UNCHANGED vars
      BY <2>1 DEF WireTyped, vars
  <2>2. ASSUME NEW a \in Threads, CallTool(a) \/ Enter(a) \/ BuildCatalog(a) \/ BuildRaises(a)
        PROVE  stopped' \in BOOLEAN
      BY <2>2 DEF CallTool, Enter, BuildCatalog, BuildRaises, WireTyped, catalogVars
  <2>3. CASE StartReload \/ Shutdown
      BY <2>3 DEF StartReload, Shutdown, WireTyped, catalogVars
  <2>4. ASSUME NEW a \in Threads, Acquire(a) \/ AcquireFails(a) \/ Send(a) \/ Receive(a)
        PROVE  stopped' \in BOOLEAN
      BY <2>4 DEF Acquire, AcquireFails, Send, Receive, WireTyped, catalogVars
  <2>5. ASSUME NEW a \in Threads, Timeout(a) \/ Release(a) \/ Retire(a) \/ RetireRaises(a)
        PROVE  stopped' \in BOOLEAN
      BY <2>5 DEF Timeout, Release, Retire, RetireRaises, WireTyped, catalogVars
  <2>6. ASSUME NEW a \in Threads, Publish(a) \/ Revoke(a) \/ Drained(a)
        PROVE  stopped' \in BOOLEAN
      BY <2>6 DEF Publish, Revoke, Drained, WireTyped
  <2>7. ASSUME NEW g \in Gens, ServerStep(g) PROVE stopped' \in BOOLEAN
      BY <2>7 DEF ServerStep, ServerAnswers, ServerNotifies, ServerDies, WireTyped,
         catalogVars
  <2> QED
      BY <2>1, <2>2, <2>3, <2>4, <2>5, <2>6, <2>7 DEF Next, ThreadStep, Threads
<1> QED BY <1>1, <1>2, <1>3 DEF WireTyped

\* A route keeps its transport negotiated: processes start through the
\* handshake, and a dead or retired one is not called back to life without it.
LEMMA RoutesStep ==
  ASSUME CatalogType, LeaseIsPublished, WireTyped, RoutesNegotiated, [Next]_vars
  PROVE  RoutesNegotiated'
<1>1. CASE Quiet
    BY <1>1 DEF Quiet, wireVars, RoutesNegotiated, Holders
<1>2. ASSUME NEW a \in Threads, BuildCatalog(a) PROVE RoutesNegotiated'
  <2>1. Holders' \subseteq Holders /\ gen' = gen
      BY <1>2 DEF BuildCatalog, Holders, CatalogType
  <2>2. built + 1 \notin routable /\ built + 1 \in Gens
      BY <1>2, HubAssumption DEF BuildCatalog, CatalogType, Gens, HubAssumption
  <2>3. PICK w \in StartProcess, listed \in BOOLEAN :
            /\ wire' = [wire EXCEPT ![built + 1] = w]
            /\ listed => w.negotiated
            /\ routable' = IF listed THEN routable \cup {built + 1} ELSE routable
      BY <1>2 DEF BuildCatalog
  <2>4. ASSUME NEW g \in routable', wire'[g].proc # "none" PROVE wire'[g].negotiated
      BY <2>2, <2>3, <2>4 DEF RoutesNegotiated, WireTyped, CatalogType
  <2> QED BY <2>1, <2>3, <2>4 DEF RoutesNegotiated
<1>3. ASSUME NEW a \in Threads, Send(a) PROVE RoutesNegotiated'
  <2>1. gen[a] \in Gens
      BY <1>3, CalledWasBuilt DEF Send, Holders
  <2>2. Holders' \subseteq Holders /\ gen' = gen /\ routable' = routable
      BY <1>3 DEF Send, Holders, CatalogType, hubVars
  <2>3. CASE wire[gen[a]].proc = "dead"
      BY <1>3, <2>2, <2>3 DEF Send, RoutesNegotiated
  <2>4. CASE wire[gen[a]].proc # "dead"
    <3>1. PICK v \in WireType : /\ wire' = [wire EXCEPT ![gen[a]] = v]
                                /\ wire[gen[a]].negotiated \/ wire[gen[a]].proc = "none"
                                      => v.negotiated
        BY <1>3, <2>1, <2>4, SendWrites
    <3> QED BY <2>1, <2>2, <3>1 DEF RoutesNegotiated, WireTyped
  <2> QED BY <2>3, <2>4
<1>4. ASSUME NEW a \in Threads, Receive(a) \/ Timeout(a) PROVE RoutesNegotiated'
  <2>1. gen[a] \in Gens
      BY <1>4, CalledWasBuilt DEF Receive, Timeout, Holders
  <2>2. Holders' \subseteq Holders /\ gen' = gen /\ routable' = routable
      BY <1>4 DEF Receive, Timeout, Holders, CatalogType, hubVars
  <2>3. PICK v \in WireType :
            /\ wire' = [wire EXCEPT ![gen[a]] = v]
            /\ v.proc = wire[gen[a]].proc /\ v.negotiated = wire[gen[a]].negotiated
      BY <1>4, <2>1, AnswerWrites
  <2> QED BY <2>1, <2>2, <2>3 DEF RoutesNegotiated, WireTyped
<1>5. ASSUME NEW a \in Threads, Retire(a) PROVE RoutesNegotiated'
  <2>1. Holders' \subseteq Holders /\ \A b \in Holders' : gen'[b] = gen[b]
      BY <1>5 DEF Retire, Holders, CatalogType
  <2>2. routable' = routable /\ routable \subseteq Gens
      BY <1>5, HubAssumption DEF Retire, CatalogType, Gens, HubAssumption
  <2>3. \A g \in Gens : wire'[g] = NoWire \/ wire'[g] = wire[g]
      BY <1>5 DEF Retire
  <2> QED BY <2>1, <2>2, <2>3 DEF RoutesNegotiated, NoWire
<1>6. ASSUME NEW g \in Gens, ServerStep(g) PROVE RoutesNegotiated'
  <2>1. Holders' = Holders /\ gen' = gen /\ routable' = routable
      BY <1>6 DEF ServerStep, ServerAnswers, ServerNotifies, ServerDies, Holders, hubVars
  <2>2. PICK v \in WireType : /\ wire' = [wire EXCEPT ![g] = v]
                              /\ v.negotiated = wire[g].negotiated
                              /\ wire[g].proc # "none"
      BY <1>6, ServerWrites
  <2> QED BY <2>1, <2>2 DEF RoutesNegotiated, WireTyped
<1> QED
    BY <1>1, <1>2, <1>3, <1>4, <1>5, <1>6, WireSteps

\* The wait begins on a transport that is negotiated, and no handshake is
\* undone while it lasts: the retirement concerns another transport.
LEMMA NegotiatedStep ==
  ASSUME CatalogType, OnePlace, LeaseIsPublished, WireTyped, RoutesNegotiated,
         CallsOnlyNegotiated, [Next]_vars
  PROVE  CallsOnlyNegotiated'
<1>1. CASE Quiet
    BY <1>1 DEF Quiet, wireVars, CallsOnlyNegotiated
<1>2. ASSUME NEW a \in Threads, BuildCatalog(a) PROVE CallsOnlyNegotiated'
  <2>1. PICK w : wire' = [wire EXCEPT ![built + 1] = w]
      BY <1>2 DEF BuildCatalog
  <2>2. \A b \in Threads : pc'[b] = "wait" =>
            pc[b] = "wait" /\ gen'[b] = gen[b] /\ gen[b] # built + 1 /\ gen[b] \in Gens
      BY <1>2, CalledWasBuilt DEF BuildCatalog, CatalogType, Holders
  <2> QED BY <2>1, <2>2 DEF CallsOnlyNegotiated, WireTyped
<1>3. ASSUME NEW a \in Threads, Send(a) PROVE CallsOnlyNegotiated'
  <2>1. gen[a] \in Gens /\ gen[a] \in routable
      BY <1>3, CalledWasBuilt DEF Send, Holders, RoutesNegotiated
  <2>2. pc'[a] = "wait" => /\ wire'[gen[a]].negotiated
                           /\ \A g \in Gens : wire[g].negotiated => wire'[g].negotiated
    <3> SUFFICES ASSUME pc'[a] = "wait" PROVE wire[gen[a]].proc # "dead"
        BY <1>3, <2>1, SendWrites DEF RoutesNegotiated, WireTyped, WireType
    <3> QED BY <1>3 DEF Send, CatalogType
  <2>3. pc'[a] # "wait" => wire' = wire
      BY <1>3 DEF Send, CatalogType
  <2>4. \A b \in Threads : /\ pc'[b] = "wait" => b = a \/ pc[b] = "wait"
                           /\ gen'[b] = gen[b]
      BY <1>3 DEF Send, CatalogType
  <2>5. \A b \in Threads : pc[b] = "wait" => gen[b] \in Gens
      BY CalledWasBuilt DEF Holders
  <2> QED BY <2>2, <2>3, <2>4, <2>5 DEF CallsOnlyNegotiated
<1>4. ASSUME NEW a \in Threads, Receive(a) \/ Timeout(a) PROVE CallsOnlyNegotiated'
  <2>1. \A b \in Threads : pc'[b] = "wait" => pc[b] = "wait" /\ gen'[b] = gen[b]
      BY <1>4 DEF Receive, Timeout, CatalogType
  <2>2. \A b \in Threads : pc[b] = "wait" => gen[b] \in Gens
      BY CalledWasBuilt DEF Holders
  <2>3. PICK v \in WireType : /\ wire' = [wire EXCEPT ![gen[a]] = v]
                              /\ v.negotiated = wire[gen[a]].negotiated
      BY <1>4, <2>2, AnswerWrites DEF Receive, Timeout
  <2> QED BY <2>1, <2>2, <2>3 DEF CallsOnlyNegotiated, WireTyped
<1>5. ASSUME NEW a \in Threads, Retire(a) PROVE CallsOnlyNegotiated'
  <2>1. \A b \in Threads : pc'[b] = "wait" =>
            pc[b] = "wait" /\ gen'[b] = gen[b] /\ gen[b] \in Gens /\ gen[b] # gen[a]
      BY <1>5, CalledWasBuilt DEF Retire, CatalogType, Holders, OnePlace, LeaseIsPublished
  <2> QED BY <1>5, <2>1 DEF Retire, CallsOnlyNegotiated
<1>6. ASSUME NEW g \in Gens, ServerStep(g) PROVE CallsOnlyNegotiated'
  <2>1. PICK v \in WireType : wire' = [wire EXCEPT ![g] = v] /\ v.negotiated = wire[g].negotiated
      BY <1>6, ServerWrites
  <2>2. \A h \in Gens : wire'[h].negotiated = wire[h].negotiated
      BY <2>1 DEF WireTyped
  <2>3. pc' = pc /\ gen' = gen
      BY <1>6 DEF ServerStep, ServerAnswers, ServerNotifies, ServerDies
  <2>4. \A b \in Threads : pc[b] = "wait" => gen[b] \in Gens
      BY CalledWasBuilt DEF Holders
  <2> QED BY <2>2, <2>3, <2>4 DEF CallsOnlyNegotiated
<1> QED
    BY <1>1, <1>2, <1>3, <1>4, <1>5, <1>6, WireSteps

\* The caller that waits alone on an undisturbed transport: the head of its
\* queue is its own answer, which leaves nothing behind.
LEMMA HeadIsOwn ==
  ASSUME OwnAnswers, NEW a \in Threads, pc[a] = "wait", gen[a] \in Gens \ disturbed,
         wire[gen[a]].queue # <<>>
  PROVE  /\ Waiting(gen[a]) = {a}
         /\ wire[gen[a]].queue = <<a>> /\ wire[gen[a]].asked = {}
<1>1. a \in Waiting(gen[a])
    BY DEF Waiting
<1> QED BY <1>1 DEF OwnAnswers

LEMMA OwnStep ==
  ASSUME CatalogType, OnePlace, LeaseIsPublished, WireTyped, OwnAnswers, [Next]_vars
  PROVE  OwnAnswers'
<1> DEFINE Own(g) == /\ \A a, b \in Waiting(g) : a = b
                     /\ wire[g].late = 0
                     /\ wire[g].asked \subseteq Waiting(g)
                     /\ \/ wire[g].queue = <<>>
                        \/ wire[g].asked = {} /\ \E a \in Waiting(g) : wire[g].queue = <<a>>
<1>0. ASSUME NEW g \in Gens, Own(g), Waiting(g)' = Waiting(g), wire'[g] = wire[g]
      PROVE  Own(g)'
    BY <1>0
<1>1. CASE Quiet
  <2>1. \A g \in Gens : Waiting(g)' = Waiting(g)
      BY <1>1 DEF Quiet, Waiting
  <2> QED BY <1>0, <1>1, <2>1 DEF Quiet, wireVars, OwnAnswers
<1>2. ASSUME NEW a \in Threads, BuildCatalog(a) PROVE OwnAnswers'
  <2>1. \A g \in Gens : Waiting(g)' = Waiting(g)
      BY <1>2 DEF BuildCatalog, Waiting, CatalogType
  <2>2. PICK w \in StartProcess : wire' = [wire EXCEPT ![built + 1] = w]
      BY <1>2 DEF BuildCatalog
  <2>3. disturbed' = disturbed
      BY <1>2 DEF BuildCatalog
  <2>4. ASSUME NEW g \in Gens \ disturbed, g # built + 1 PROVE Own(g)'
      BY <1>0, <2>1, <2>2, <2>4 DEF OwnAnswers, WireTyped
  <2>5. ASSUME NEW g \in Gens \ disturbed, g = built + 1 PROVE Own(g)'
    <3>1. wire'[g] = w
        BY <2>2, <2>5 DEF WireTyped
    <3>2. w.asked = {} /\ w.late = 0 /\ w.queue = <<>>
        BY ProcessStarts
    <3>3. \A c, d \in Waiting(g)' : c = d
        BY <2>1 DEF OwnAnswers
    <3> QED BY <3>1, <3>2, <3>3
  <2> QED BY <2>3, <2>4, <2>5 DEF OwnAnswers
<1>3. ASSUME NEW a \in Threads, Send(a) PROVE OwnAnswers'
  <2>1. gen[a] \in Gens /\ wire[gen[a]] \in WireType
      BY <1>3, CalledWasBuilt DEF Send, Holders, WireTyped
  <2>2. CASE wire[gen[a]].proc = "dead"
    <3>1. \A g \in Gens : Waiting(g)' = Waiting(g)
        BY <1>3, <2>2 DEF Send, Waiting, CatalogType
    <3> QED BY <1>0, <1>3, <2>2, <3>1 DEF Send, OwnAnswers
  <2>3. CASE wire[gen[a]].proc # "dead"
    <3>1. \A g \in Gens : g # gen[a] => Waiting(g)' = Waiting(g) /\ wire'[g] = wire[g]
        BY <1>3, <2>3 DEF Send, Waiting, CatalogType, WireTyped
    <3>2. ASSUME NEW g \in Gens \ disturbed', g # gen[a] PROVE Own(g)'
        BY <1>0, <1>3, <2>3, <3>1, <3>2 DEF Send, OwnAnswers
    <3>3. ASSUME gen[a] \notin disturbed' PROVE Own(gen[a])'
      <4>1. gen[a] \notin disturbed /\ Waiting(gen[a]) = {}
          BY <1>3, <2>3, <3>3 DEF Send
      <4>2. Waiting(gen[a])' = {a}
          BY <1>3, <2>3, <4>1 DEF Send, Waiting, CatalogType
      <4>3. /\ wire[gen[a]].late = 0 /\ wire[gen[a]].asked = {}
            /\ wire[gen[a]].queue = <<>>
          BY <2>1, <4>1 DEF OwnAnswers
      <4>4. /\ wire'[gen[a]].late = wire[gen[a]].late
            /\ wire'[gen[a]].asked = wire[gen[a]].asked \cup {a}
            /\ wire'[gen[a]].queue = wire[gen[a]].queue
          BY <1>3, <2>1, <2>3, SendWrites DEF WireTyped
      <4>5. gen' = gen
          BY <1>3 DEF Send
      <4> QED BY <4>2, <4>3, <4>4, <4>5
    <3>4. gen' = gen
        BY <1>3 DEF Send
    <3> QED BY <3>2, <3>3, <3>4 DEF OwnAnswers
  <2> QED BY <2>2, <2>3
<1>4. ASSUME NEW a \in Threads, Receive(a) PROVE OwnAnswers'
  <2> DEFINE h == gen[a]
             t == [wire[h] EXCEPT !.queue = Tail(@)]
  <2>1. h \in Gens /\ wire[h] \in WireType
      BY <1>4, CalledWasBuilt DEF Receive, Holders, WireTyped
  <2>2. t \in WireType /\ t.asked = wire[h].asked /\ t.late = wire[h].late
        /\ t.queue = Tail(wire[h].queue)
      BY <1>4, <2>1, TailKeeps DEF Receive
  <2>3. PICK left \in Abandon(t, a) : wire' = [wire EXCEPT ![h] = left]
      BY <1>4 DEF Receive
  <2>4. disturbed' = disturbed
      BY <1>4 DEF Receive
  <2>5. ASSUME NEW g \in Gens \ disturbed, g # h PROVE Own(g)'
    <3>1. Waiting(g)' = Waiting(g)
        BY <1>4, <2>5 DEF Receive, Waiting, CatalogType
    <3>2. wire'[g] = wire[g]
        BY <2>3, <2>5
    <3> QED BY <1>0, <3>1, <3>2 DEF OwnAnswers
  <2>6. ASSUME NEW g \in Gens \ disturbed, g = h PROVE Own(g)'
    <3>1. Waiting(g) = {a} /\ wire[h].queue = <<a>> /\ wire[h].asked = {}
        BY <1>4, <2>6, HeadIsOwn DEF Receive
    <3>2. Waiting(g)' = {}
        BY <1>4, <2>6, <3>1 DEF Receive, Waiting, CatalogType
    <3>3. t.queue = <<>> /\ t.asked = {} /\ t.late = 0
        BY <2>2, <2>6, <3>1 DEF OwnAnswers
    <3>4. left.queue = <<>> /\ left.asked = {} /\ left.late = 0
      <4>1. t \in WireType /\ left \in Abandon(t, a)
          BY <2>2, <2>3
      <4> HIDE DEF t
      <4>2. /\ left.asked = t.asked \ {a}
            /\ a \notin t.asked => left.late = t.late
            /\ t.queue = <<>> => left.queue = <<>>
          BY <4>1, AbandonLeaves
      <4> QED BY <3>3, <4>2
    <3>5. wire'[g] = left
        BY <2>1, <2>3, <2>6 DEF WireTyped
    <3> QED BY <3>2, <3>4, <3>5
  <2> QED BY <2>4, <2>5, <2>6 DEF OwnAnswers
<1>5. ASSUME NEW a \in Threads, Timeout(a) PROVE OwnAnswers'
  <2>1. disturbed' = disturbed \cup {gen[a]}
      BY <1>5 DEF Timeout
  <2>2. ASSUME NEW g \in Gens \ disturbed', g # gen[a] PROVE Own(g)'
    <3>1. Waiting(g)' = Waiting(g)
        BY <1>5, <2>2 DEF Timeout, Waiting, CatalogType
    <3>2. wire'[g] = wire[g]
        BY <1>5, <2>2 DEF Timeout, WireTyped
    <3> QED BY <1>0, <2>1, <3>1, <3>2 DEF OwnAnswers
  <2> QED BY <2>1, <2>2 DEF OwnAnswers
<1>6. ASSUME NEW a \in Threads, Retire(a) PROVE OwnAnswers'
  <2>1. \A g \in Gens : Waiting(g)' = Waiting(g)
      BY <1>6 DEF Retire, Waiting, CatalogType, Gens
  <2>2. ASSUME NEW g \in Gens \ disturbed', g # gen[a] PROVE Own(g)'
      BY <1>0, <1>6, <2>1, <2>2 DEF Retire, OwnAnswers
  <2>3. ASSUME NEW g \in Gens, g = gen[a] PROVE Own(g)'
    <3>1. Waiting(g) = {}
        BY <1>6, <2>3, HubAssumption DEF Retire, Waiting, OnePlace, LeaseIsPublished,
           Holders, Gens, HubAssumption
    <3>2. wire'[g] = NoWire
        BY <1>6, <2>3 DEF Retire
    <3>3. Waiting(g)' = {}
        BY <2>1, <3>1
    <3> QED BY <3>2, <3>3 DEF NoWire
  <2> QED BY <2>2, <2>3 DEF OwnAnswers
<1>7. ASSUME NEW g \in Gens, ServerStep(g) PROVE OwnAnswers'
  <2>1. \A h \in Gens : Waiting(h)' = Waiting(h)
      BY <1>7 DEF ServerStep, ServerAnswers, ServerNotifies, ServerDies, Waiting
  <2>2. /\ \A h \in Gens : h # g => wire'[h] = wire[h]
        /\ disturbed \subseteq disturbed'
      BY <1>7 DEF ServerStep, ServerAnswers, ServerNotifies, ServerDies, WireTyped
  <2>3. ASSUME NEW h \in Gens \ disturbed', h # g PROVE Own(h)'
      BY <1>0, <2>1, <2>2, <2>3 DEF OwnAnswers
  <2>4. ASSUME g \notin disturbed' PROVE Own(g)'
    <3>1. g \notin disturbed /\ wire[g] \in WireType
        BY <2>2, <2>4 DEF WireTyped
    <3>2. Own(g)
        BY <3>1 DEF OwnAnswers
    <3>3. CASE ServerAnswers(g)
      <4>1. PICK a \in wire[g].asked :
               wire' = [wire EXCEPT ![g].asked = @ \ {a}, ![g].queue = Append(@, a)]
        <5>1. ~(wire[g].late > 0)
            BY <3>2
        <5> QED BY <3>3, <5>1 DEF ServerAnswers
      <4>2. wire[g].asked = {a} /\ a \in Waiting(g) /\ wire[g].queue = <<>>
          BY <3>2, <4>1
      <4>3. /\ wire'[g].asked = {} /\ wire'[g].late = wire[g].late
            /\ wire'[g].queue = Append(wire[g].queue, a)
          BY <3>1, <4>1, <4>2 DEF WireTyped, WireType
      <4>4. wire'[g].queue = <<a>>
          BY <4>2, <4>3
      <4> QED BY <2>1, <3>2, <4>2, <4>3, <4>4
    <3>4. CASE ServerNotifies(g)
        BY <2>4, <3>4 DEF ServerNotifies
    <3>5. CASE ServerDies(g)
      <4>1. /\ wire'[g].asked = {} /\ wire'[g].late = 0
            /\ wire'[g].queue = wire[g].queue
          BY <3>1, <3>5 DEF ServerDies, WireTyped, WireType
      <4> QED BY <2>1, <3>2, <4>1
    <3> QED BY <1>7, <3>3, <3>4, <3>5 DEF ServerStep
  <2> QED BY <2>3, <2>4 DEF OwnAnswers
<1> QED
    BY <1>1, <1>2, <1>3, <1>4, <1>5, <1>6, <1>7, WireSteps

\* The history of a foreign answer ends with the transport's.
LEMMA MixedStep ==
  ASSUME CatalogType, LeaseIsPublished, OwnAnswers, MixedOnlyIfDisturbed, [Next]_vars
  PROVE  MixedOnlyIfDisturbed'
<1>1. CASE Quiet
    BY <1>1 DEF Quiet, wireVars, MixedOnlyIfDisturbed
<1>2. ASSUME NEW a \in Threads, BuildCatalog(a) \/ Send(a) \/ Timeout(a) \/ Retire(a)
      PROVE  MixedOnlyIfDisturbed'
    BY <1>2 DEF BuildCatalog, Send, Timeout, Retire, MixedOnlyIfDisturbed
<1>3. ASSUME NEW a \in Threads, Receive(a) PROVE MixedOnlyIfDisturbed'
  <2>1. gen[a] \in Gens
      BY <1>3, CalledWasBuilt DEF Receive, Holders
  <2>2. gen[a] \notin disturbed => Head(wire[gen[a]].queue) = a
      BY <1>3, <2>1, HeadIsOwn DEF Receive
  <2> QED BY <1>3, <2>2 DEF Receive, MixedOnlyIfDisturbed
<1>4. ASSUME NEW g \in Gens, ServerStep(g) PROVE MixedOnlyIfDisturbed'
    BY <1>4 DEF ServerStep, ServerAnswers, ServerNotifies, ServerDies, MixedOnlyIfDisturbed
<1> QED BY <1>1, <1>2, <1>3, <1>4, WireSteps

\* The state of the transports is an invariant on top of the catalog's.
THEOREM WireInvariant == Spec => []WireInv
<1>1. IInv /\ WireInv /\ [Next]_vars => WireInv'
    BY WireTypedStep, RoutesStep, NegotiatedStep, OwnStep, MixedStep DEF IInv, WireInv
<1> QED BY <1>1, WireInit, HubInvariant, PTL DEF Spec

\* Every variable keeps its type, the token counter included, which the code
\* clamps at zero and the invariant shows never needs it.
THEOREM TypeCorrect == Spec => []TypeOK
<1>1. IInv /\ WireInv => TypeOK
  <2> SUFFICES ASSUME IInv, WireInv PROVE TypeOK
      OBVIOUS
  <2>1. 0 .. built \subseteq 0 .. MaxGen /\ 1 .. built \subseteq Gens
      BY HubAssumption DEF IInv, CatalogType, Gens, HubAssumption
  <2>2. mixed \subseteq Gens
      BY DEF WireInv, WireTyped, MixedOnlyIfDisturbed
  <2> QED BY <2>1, <2>2 DEF IInv, CatalogType, WireInv, WireTyped, TypeOK
<1> QED BY <1>1, HubInvariant, WireInvariant, PTL

\* A tool call waits only on a process whose handshake succeeded, although the
\* transport keeps the process of a failed one.
THEOREM CallsOnlyNegotiatedHolds == Spec => []CallsOnlyNegotiated
<1>1. WireInv => CallsOnlyNegotiated
    BY DEF WireInv
<1> QED BY <1>1, WireInvariant, PTL

\* Without a timeout, a notification or two calls at once a caller gets its own
\* answer from the shared queue, although no request id is compared.
THEOREM MixedOnlyIfDisturbedHolds == Spec => []MixedOnlyIfDisturbed
<1>1. WireInv => MixedOnlyIfDisturbed
    BY DEF WireInv
<1> QED BY <1>1, WireInvariant, PTL

=============================================================================
