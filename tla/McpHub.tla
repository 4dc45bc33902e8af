------------------------------- MODULE McpHub -------------------------------
(***************************************************************************)
(* The MCP hub of mcp/hub.py with the catalog lifecycle it drives          *)
(* (mcp/catalog_lifecycle.py) and the STDIO transport behind every route   *)
(* (mcp/transports/stdio.py).                                              *)
(*                                                                         *)
(* Worker threads (Callers) call tools; the event loop (Loop) reloads the  *)
(* registry, synchronously, from an async route; the thread of the         *)
(* application's shutdown event (Shut) revokes the catalog once no request *)
(* is left.  Every build binds a new transport instance, so a catalog      *)
(* snapshot and its transport are both named by the generation of their    *)
(* build.  A generation has one MCP server and one tool.                   *)
(***************************************************************************)
EXTENDS Naturals, Sequences, FiniteSets

CONSTANTS
    Callers,    \* threads of the client's pool that call tools
    Loop,       \* the event loop: installer routes and /mcp/refresh
    Shut,       \* the thread the shutdown event runs the hub's shutdown in
    NoOne,      \* nobody holds the hub's lock
    MaxGen,     \* bound: catalogs built
    MaxLate,    \* bound: abandoned requests the server may still answer
    MaxQueue    \* bound: messages in the queue when the server notifies

ASSUME HubAssumption ==
    /\ IsFiniteSet(Callers)
    /\ Loop \notin Callers
    /\ Shut \notin Callers
    /\ Loop # Shut
    /\ NoOne \notin Callers \cup {Loop, Shut}
    /\ MaxGen \in Nat
    /\ MaxLate \in Nat
    /\ MaxQueue \in Nat

Threads == Callers \cup {Loop, Shut}
Gens == 1 .. MaxGen

\* Messages of a response queue that answer no request still waited for.
Late == "late"
Note == "note"

VARIABLES
    hubLock,      \* owner of MCPHub._lock (re-entrant)
    initialized,  \* MCPHub._initialized
    published,    \* _published_snapshot: a generation, 0 for None
    stopped,      \* _acquires_stopped
    tokens,       \* _active_tokens
    pc,           \* where each thread is
    cand,         \* the unpublished candidate a thread has built, 0 for none
    gen,          \* the generation a thread calls or retires, 0 for none
    sync,         \* registry sync of a thread: none, load or save
    built,        \* catalogs built so far
    routable,     \* generations whose tools/list gave a route
    retired,      \* generations whose transport was shut down
    stuck,        \* generations whose transport raised in its shutdown
    wire,         \* process, handshake and response queue of each transport
    disturbed,    \* history: a timeout, a notification or two calls at once
    mixed         \* history: a call took a message that was not its answer

catalogVars == <<published, stopped, tokens>>
hubVars == <<hubLock, initialized, built, routable, cand>>
wireVars == <<wire, disturbed, mixed>>
endVars == <<retired, stuck>>
vars == <<hubLock, initialized, published, stopped, tokens, pc, cand, gen, sync,
          built, routable, retired, stuck, wire, disturbed, mixed>>

(***************************************************************************)
(* The STDIO transport.                                                    *)
(***************************************************************************)
Messages == Threads \cup {Late, Note}

NoWire == [proc |-> "none", negotiated |-> FALSE, asked |-> {}, late |-> 0, queue |-> <<>>]

\* Mutant: the answer to the handshake is left in the queue.
StartProcessUnread ==
    {NoWire} \cup {[NoWire EXCEPT !.proc = "live", !.negotiated = b, !.queue = <<Late>>] :
                       b \in BOOLEAN}

\* The process after a build: never started, left running by a failed
\* handshake, or negotiated.
StartProcess ==
    {NoWire} \cup {[NoWire EXCEPT !.proc = "live", !.negotiated = b] : b \in BOOLEAN}

\* What is left of a's request once a no longer waits: an answer in the
\* queue answers nobody, one still owed may come late or never.
Abandon(w, a) ==
    LET queue == [i \in DOMAIN w.queue |-> IF w.queue[i] = a THEN Late ELSE w.queue[i]]
    IN {[w EXCEPT !.asked = @ \ {a}, !.queue = queue, !.late = n] :
            n \in {w.late} \cup
                  (IF a \in w.asked /\ w.late < MaxLate THEN {w.late + 1} ELSE {})}

Waiting(g) == {a \in Threads : pc[a] = "wait" /\ gen[a] = g}

(***************************************************************************)
(* Initial state: nothing built; acquires stay stopped until a publication.*)
(***************************************************************************)
Init ==
    /\ hubLock = NoOne
    /\ initialized = FALSE
    /\ published = 0
    /\ stopped = TRUE
    /\ tokens = 0
    /\ pc = [a \in Threads |-> "idle"]
    /\ cand = [a \in Threads |-> 0]
    /\ gen = [a \in Threads |-> 0]
    /\ sync = [a \in Threads |-> "none"]
    /\ built = 0
    /\ routable = {}
    /\ retired = {}
    /\ stuck = {}
    /\ wire = [g \in Gens |-> NoWire]
    /\ disturbed = {}
    /\ mixed = {}

(***************************************************************************)
(* MCPHub.call_tool and MCPHub.initialize.                                 *)
(***************************************************************************)
CallTool(a) ==
    /\ pc[a] = "idle"
    /\ pc' = [pc EXCEPT ![a] = "enter"]
    /\ UNCHANGED <<catalogVars, hubVars, endVars, wireVars, gen, sync>>

\* initialize(), first under the lock: done already, or build the catalog.
Enter(a) ==
    /\ pc[a] = "enter"
    /\ hubLock \in {NoOne, a}
    /\ IF initialized
       THEN /\ pc' = [pc EXCEPT ![a] = "acquire"]
            /\ UNCHANGED hubLock
       ELSE /\ pc' = [pc EXCEPT ![a] = "build"]
            /\ hubLock' = a
    /\ UNCHANGED <<catalogVars, initialized, built, routable, cand, endVars, wireVars,
                   gen, sync>>

\* Mutant: a server whose handshake failed gets a route all the same.
BuildUnlisted(a) ==
    /\ pc[a] = "build"
    /\ built < MaxGen
    /\ built' = built + 1
    /\ cand' = [cand EXCEPT ![a] = built + 1]
    /\ \E w \in StartProcess : wire' = [wire EXCEPT ![built + 1] = w]
    /\ routable' = routable \cup {built + 1}
    /\ pc' = [pc EXCEPT ![a] = IF a = Loop THEN "revoke" ELSE "publish"]
    /\ UNCHANGED <<hubLock, initialized, catalogVars, endVars, gen, sync, disturbed, mixed>>

\* build_catalog_snapshot(): bind a new transport and list its tools.  A
\* route exists only where the list succeeded, which needs the handshake.
BuildCatalog(a) ==
    /\ pc[a] = "build"
    /\ built < MaxGen
    /\ built' = built + 1
    /\ cand' = [cand EXCEPT ![a] = built + 1]
    /\ \E w \in StartProcess :
          /\ wire' = [wire EXCEPT ![built + 1] = w]
          /\ \E listed \in IF w.negotiated THEN BOOLEAN ELSE {FALSE} :
                routable' = IF listed THEN routable \cup {built + 1} ELSE routable
    /\ pc' = [pc EXCEPT ![a] = IF a = Loop THEN "revoke" ELSE "publish"]
    /\ UNCHANGED <<hubLock, initialized, catalogVars, endVars, gen, sync, disturbed, mixed>>

\* The registry file cannot be read or parsed: the build raises before any
\* transport exists, and the lock is released on the way out.
BuildRaises(a) ==
    /\ pc[a] = "build"
    /\ hubLock' = NoOne
    /\ pc' = [pc EXCEPT ![a] = "idle"]
    /\ UNCHANGED <<catalogVars, initialized, built, routable, cand, endVars, wireVars,
                   gen, sync>>

\* publish_catalog(), then the registry sync while the lock is still held.
Publish(a) ==
    /\ pc[a] = "publish"
    /\ published' = cand[a]
    /\ stopped' = FALSE
    /\ initialized' = TRUE
    /\ cand' = [cand EXCEPT ![a] = 0]
    /\ sync' = [sync EXCEPT ![a] = "load"]
    /\ pc' = [pc EXCEPT ![a] = "enter"]
    /\ UNCHANGED <<hubLock, tokens, built, routable, endVars, wireVars, gen>>

\* The end of one call_tool.  A registry sync goes on from loading the stored
\* version to saving the facts, or ends; in initialize() its end releases the
\* lock and the call that came first goes on.
AfterCall(a) ==
    \/ /\ sync[a] = "none"
       /\ pc' = [pc EXCEPT ![a] = "idle"]
       /\ UNCHANGED <<sync, hubLock>>
    \/ /\ sync[a] = "load"
       /\ sync' = [sync EXCEPT ![a] = "save"]
       /\ pc' = [pc EXCEPT ![a] = "enter"]
       /\ UNCHANGED hubLock
    \/ /\ sync[a] # "none"
       /\ sync' = [sync EXCEPT ![a] = "none"]
       /\ pc' = [pc EXCEPT ![a] = IF a = Loop THEN "idle" ELSE "acquire"]
       /\ hubLock' = IF hubLock = a THEN NoOne ELSE hubLock

(***************************************************************************)
(* acquire_route(), dispatch_acquired_route() and the release of the lease.*)
(***************************************************************************)
Acquire(a) ==
    /\ pc[a] = "acquire"
    /\ ~stopped
    /\ published \in routable
    /\ tokens' = tokens + 1
    /\ gen' = [gen EXCEPT ![a] = published]
    /\ pc' = [pc EXCEPT ![a] = "send"]
    /\ UNCHANGED <<published, stopped, hubVars, endVars, wireVars, sync>>

\* Routes revoked (transport failure) or tool unknown (protocol failure).
AcquireFails(a) ==
    /\ pc[a] = "acquire"
    /\ stopped \/ published \notin routable
    /\ AfterCall(a)
    /\ UNCHANGED <<catalogVars, initialized, built, routable, cand, endVars, wireVars, gen>>

\* _send_request_outcome(): the process exists since the catalog was built
\* (a transport that was shut down would start it again), so the request is
\* written; writing to a process that died raises.
Send(a) ==
    LET g == gen[a]
        w == wire[g]
        up == IF w.proc = "none" THEN [w EXCEPT !.proc = "live", !.negotiated = TRUE] ELSE w
    IN /\ pc[a] = "send"
       /\ IF w.proc = "dead"
          THEN /\ pc' = [pc EXCEPT ![a] = "release"]
               /\ UNCHANGED <<wire, disturbed>>
          ELSE /\ pc' = [pc EXCEPT ![a] = "wait"]
               /\ wire' = [wire EXCEPT ![g] = [up EXCEPT !.asked = @ \cup {a}]]
               /\ disturbed' = IF Waiting(g) = {} THEN disturbed ELSE disturbed \cup {g}
       /\ UNCHANGED <<catalogVars, hubVars, endVars, gen, sync, mixed>>

\* _wait_for_response(): the first message of the shared queue is taken for
\* the answer; no request id is compared.
Receive(a) ==
    LET g == gen[a]
        w == wire[g]
    IN /\ pc[a] = "wait"
       /\ w.queue # <<>>
       /\ \E left \in Abandon([w EXCEPT !.queue = Tail(@)], a) :
             wire' = [wire EXCEPT ![g] = left]
       /\ mixed' = IF Head(w.queue) = a THEN mixed ELSE mixed \cup {g}
       /\ pc' = [pc EXCEPT ![a] = "release"]
       /\ UNCHANGED <<catalogVars, hubVars, endVars, gen, sync, disturbed>>

\* Mutant: the queue is read without a timeout.
TimeoutNever(a) == FALSE /\ pc[a] = "wait" /\ UNCHANGED vars

\* queue.Empty after the transport's timeout.
Timeout(a) ==
    LET g == gen[a]
    IN /\ pc[a] = "wait"
       /\ wire[g].queue = <<>>
       /\ \E left \in Abandon(wire[g], a) : wire' = [wire EXCEPT ![g] = left]
       /\ disturbed' = disturbed \cup {g}
       /\ pc' = [pc EXCEPT ![a] = "release"]
       /\ UNCHANGED <<catalogVars, hubVars, endVars, gen, sync, mixed>>

\* lease.release() in the finally of the dispatch.
Release(a) ==
    /\ pc[a] = "release"
    /\ tokens' = IF tokens = 0 THEN 0 ELSE tokens - 1
    /\ gen' = [gen EXCEPT ![a] = 0]
    /\ AfterCall(a)
    /\ UNCHANGED <<published, stopped, initialized, built, routable, cand, endVars, wireVars>>

(***************************************************************************)
(* MCPHub.reload_registry() and MCPHub.shutdown(): revoke_catalog_routes().*)
(***************************************************************************)
\* The server takes no request once the shutdown event runs.
StartReload ==
    /\ pc[Loop] = "idle"
    /\ pc[Shut] = "idle"
    /\ built < MaxGen
    /\ hubLock = NoOne
    /\ hubLock' = Loop
    /\ pc' = [pc EXCEPT ![Loop] = "build"]
    /\ UNCHANGED <<catalogVars, initialized, built, routable, cand, endVars, wireVars,
                   gen, sync>>

\* The shutdown event runs after the last request, so no reload is going on;
\* the worker threads may still be calling tools.
Shutdown ==
    /\ pc[Shut] = "idle"
    /\ pc[Loop] = "idle"
    /\ pc' = [pc EXCEPT ![Shut] = "revoke"]
    /\ UNCHANGED <<catalogVars, hubVars, endVars, wireVars, gen, sync>>

\* Mutant: the catalog is swapped without waiting for the leases.
SwapUndrained(a) ==
    /\ gen' = [gen EXCEPT ![a] = published]
    /\ published' = cand[a]
    /\ cand' = [cand EXCEPT ![a] = 0]
    /\ pc' = [pc EXCEPT ![a] = "retire"]

\* Mutant: the snapshot to retire is read after the replacement is published.
SwapReadsLate(a) ==
    /\ tokens = 0
    /\ gen' = [gen EXCEPT ![a] = cand[a]]
    /\ published' = cand[a]
    /\ cand' = [cand EXCEPT ![a] = 0]
    /\ pc' = [pc EXCEPT ![a] = "retire"]

\* No token is active: take the old snapshot, publish the replacement or None.
SwapCatalog(a) ==
    /\ tokens = 0
    /\ gen' = [gen EXCEPT ![a] = published]
    /\ published' = cand[a]
    /\ cand' = [cand EXCEPT ![a] = 0]
    /\ pc' = [pc EXCEPT ![a] = "retire"]

\* Mutant: the drain does not stop new acquires.
RevokeWithoutStop(a) ==
    /\ pc[a] = "revoke"
    /\ \/ /\ SwapCatalog(a)
          /\ stopped' = (cand[a] = 0)
       \/ /\ tokens > 0
          /\ pc' = [pc EXCEPT ![a] = "drain"]
          /\ UNCHANGED <<stopped, published, cand, gen>>
    /\ UNCHANGED <<tokens, hubLock, initialized, built, routable, endVars, wireVars, sync>>

Revoke(a) ==
    /\ pc[a] = "revoke"
    /\ \/ /\ SwapCatalog(a)
          /\ stopped' = (cand[a] = 0)
       \/ /\ tokens > 0
          /\ stopped' = TRUE
          /\ pc' = [pc EXCEPT ![a] = "drain"]
          /\ UNCHANGED <<published, cand, gen>>
    /\ UNCHANGED <<tokens, hubLock, initialized, built, routable, endVars, wireVars, sync>>

\* Woken by the release of the last token.
Drained(a) ==
    /\ pc[a] = "drain"
    /\ SwapCatalog(a)
    /\ stopped' = IF cand[a] = 0 THEN stopped ELSE FALSE
    /\ UNCHANGED <<tokens, hubLock, initialized, built, routable, endVars, wireVars, sync>>

\* Mutant: the shutdown clears the initialized flag when it is through.
RetireClearsFlag(a) ==
    /\ pc[a] = "retire"
    /\ retired' = IF gen[a] = 0 THEN retired ELSE retired \cup {gen[a]}
    /\ wire' = [g \in Gens |-> IF g = gen[a] THEN NoWire ELSE wire[g]]
    /\ gen' = [gen EXCEPT ![a] = 0]
    /\ initialized' = (a = Loop)
    /\ IF a = Loop
       THEN /\ hubLock' = NoOne
            /\ sync' = [sync EXCEPT ![a] = "load"]
            /\ pc' = [pc EXCEPT ![a] = "enter"]
       ELSE /\ pc' = [pc EXCEPT ![a] = "done"]
            /\ UNCHANGED <<hubLock, sync>>
    /\ disturbed' = disturbed \ {gen[a]}
    /\ mixed' = mixed \ {gen[a]}
    /\ UNCHANGED <<catalogVars, built, routable, cand, stuck>>

\* The old transport is shut down outside the catalog's lock, and its history
\* ends.  The reload then leaves the hub's lock and syncs the registry.
Retire(a) ==
    /\ pc[a] = "retire"
    /\ retired' = IF gen[a] = 0 THEN retired ELSE retired \cup {gen[a]}
    /\ wire' = [g \in Gens |-> IF g = gen[a] THEN NoWire ELSE wire[g]]
    /\ gen' = [gen EXCEPT ![a] = 0]
    /\ IF a = Loop
       THEN /\ initialized' = TRUE
            /\ hubLock' = NoOne
            /\ sync' = [sync EXCEPT ![a] = "load"]
            /\ pc' = [pc EXCEPT ![a] = "enter"]
       ELSE /\ pc' = [pc EXCEPT ![a] = "done"]
            /\ UNCHANGED <<initialized, hubLock, sync>>
    /\ disturbed' = disturbed \ {gen[a]}
    /\ mixed' = mixed \ {gen[a]}
    /\ UNCHANGED <<catalogVars, built, routable, cand, stuck>>

\* The transport raises: the candidate stays published, the lock is released
\* and neither the flag is set nor the registry synced.
RetireRaises(a) ==
    /\ pc[a] = "retire"
    /\ gen[a] # 0
    /\ stuck' = stuck \cup {gen[a]}
    /\ gen' = [gen EXCEPT ![a] = 0]
    /\ hubLock' = IF hubLock = a THEN NoOne ELSE hubLock
    /\ pc' = [pc EXCEPT ![a] = IF a = Loop THEN "idle" ELSE "done"]
    /\ UNCHANGED <<catalogVars, initialized, built, routable, cand, retired, wireVars, sync>>

(***************************************************************************)
(* The MCP server process (external): it answers in any order, late or     *)
(* never, sends notifications, and may die.  The reader thread puts every  *)
(* line into the queue.  Nobody reads what the server of an unpublished    *)
(* transport does, so only the published one is modelled.                  *)
(***************************************************************************)
Live(g) == g = published /\ wire[g].proc = "live"

ServerAnswers(g) ==
    /\ Live(g)
    /\ \/ \E a \in wire[g].asked :
             wire' = [wire EXCEPT ![g].asked = @ \ {a}, ![g].queue = Append(@, a)]
       \/ /\ wire[g].late > 0
          /\ wire' = [wire EXCEPT ![g].late = @ - 1, ![g].queue = Append(@, Late)]
    /\ UNCHANGED <<catalogVars, hubVars, endVars, pc, gen, sync, disturbed, mixed>>

ServerNotifies(g) ==
    /\ Live(g)
    /\ wire[g].negotiated
    /\ Len(wire[g].queue) < MaxQueue
    /\ wire' = [wire EXCEPT ![g].queue = Append(@, Note)]
    /\ disturbed' = disturbed \cup {g}
    /\ UNCHANGED <<catalogVars, hubVars, endVars, pc, gen, sync, mixed>>

ServerDies(g) ==
    /\ Live(g)
    /\ wire' = [wire EXCEPT ![g].proc = "dead", ![g].asked = {}, ![g].late = 0]
    /\ UNCHANGED <<catalogVars, hubVars, endVars, pc, gen, sync, disturbed, mixed>>

(***************************************************************************)
(* The specification.  A thread that has begun goes on: its waits end with *)
(* an answer or with the transport's timeout.  Nothing is assumed of the   *)
(* server, and nobody has to call, reload or shut down.                    *)
(***************************************************************************)
ThreadStep(a) ==
    \/ Enter(a) \/ BuildCatalog(a) \/ BuildRaises(a) \/ Publish(a)
    \/ Acquire(a) \/ AcquireFails(a) \/ Send(a) \/ Receive(a) \/ Timeout(a)
    \/ Release(a)
    \/ Revoke(a) \/ Drained(a) \/ Retire(a) \/ RetireRaises(a)

ServerStep(g) == ServerAnswers(g) \/ ServerNotifies(g) \/ ServerDies(g)

Next ==
    \/ \E a \in Callers : CallTool(a)
    \/ StartReload
    \/ Shutdown
    \/ \E a \in Threads : ThreadStep(a)
    \/ \E g \in Gens : ServerStep(g)

Spec == Init /\ [][Next]_vars /\ \A a \in Threads : WF_vars(ThreadStep(a))

(***************************************************************************)
(* Properties.                                                             *)
(***************************************************************************)
Places == {"idle", "enter", "build", "publish", "acquire", "send", "wait",
           "release", "revoke", "drain", "retire", "done"}

WireType == [proc : {"none", "live", "dead"}, negotiated : BOOLEAN,
             asked : SUBSET Threads, late : Nat, queue : Seq(Messages)]

\* Type invariant: every variable stays in its domain; the token counter of
\* the catalog is a natural number and never runs below zero.
TypeOK ==
    /\ hubLock \in Threads \cup {NoOne}
    /\ initialized \in BOOLEAN
    /\ published \in 0 .. MaxGen
    /\ stopped \in BOOLEAN
    /\ tokens \in Nat
    /\ pc \in [Threads -> Places]
    /\ cand \in [Threads -> 0 .. MaxGen]
    /\ gen \in [Threads -> 0 .. MaxGen]
    /\ sync \in [Threads -> {"none", "load", "save"}]
    /\ built \in 0 .. MaxGen
    /\ routable \subseteq Gens
    /\ retired \subseteq Gens
    /\ stuck \subseteq Gens
    /\ wire \in [Gens -> WireType]
    /\ disturbed \subseteq Gens
    /\ mixed \subseteq Gens

Holders == {a \in Threads : pc[a] \in {"send", "wait", "release"}}

\* No tool call runs on a transport that revoke_catalog_routes() has begun to
\* retire: a reload or a shutdown drains the leases first.
NoCallOnRetired ==
    \A a \in Holders :
        /\ gen[a] \notin retired \cup stuck
        /\ \A b \in Threads : pc[b] = "retire" => gen[b] # gen[a]

\* No transport is forgotten: one that was built is published, about to be
\* published, being retired, retired, or its shutdown raised.
NoForgottenTransport ==
    \A g \in 1 .. built :
        \/ g = published
        \/ g \in retired \cup stuck
        \/ \E a \in Threads : cand[a] = g \/ (pc[a] = "retire" /\ gen[a] = g)

\* A transport works for a tool call only after NEGOTIATED (mcp/README.md):
\* STDIOTransport keeps the process of a failed handshake, and only the
\* catalog keeps calls away from it.
CallsOnlyNegotiated ==
    \A a \in Threads :
        pc[a] = "wait" => wire[gen[a]].negotiated

\* A call gets another message than its own answer only from a transport that
\* saw a timeout, a notification or two calls at once.
MixedOnlyIfDisturbed == mixed \subseteq disturbed

\* shutdown() takes no hub lock: an initialize() that it overtakes, or that
\* runs later, publishes a catalog nobody retires.  It is one at most: once
\* the shutdown is through, all transports but one have been shut down or are
\* known to have raised, and no further initialize() adds to the one.
ShutdownLeavesOne ==
    pc[Shut] = "done" =>
        \A g, h \in (1 .. built) \ (retired \cup stuck) : g = h

\* A reload that has begun ends, although calls in flight hold leases and the
\* server may never answer them.
ReloadEnds == (pc[Loop] # "idle") ~> (pc[Loop] = "idle")

\* The shutdown ends: while it drains, no thread can take a new lease.
ShutdownEnds == (pc[Shut] # "idle") ~> (pc[Shut] = "done")

=============================================================================
