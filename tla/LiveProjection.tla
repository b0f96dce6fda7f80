------------------------------- MODULE LiveProjection -------------------------------
(* The public view of one route's buses, services/liveBusProjection.ts with    *)
(* pagedLifecycleReplay.ts: the elected worker copies the live nodes into      *)
(* publicRouteBuses/{route} and counts them in liveRouteCatalog. A worker that *)
(* lost its lease can only still commit the transaction it was in.             *)
EXTENDS Integers, FiniteSets

CONSTANTS
    Nodes,        \* live nodes of the route
    MaxElected,   \* bound: workers elected
    MaxMoves,     \* bound: changes of the live nodes
    MaxLosses     \* bound: failed tasks, and losses of the view

ASSUME ProjectionAssumption == MaxElected \in Nat \ {0}

VARIABLES
    source,       \* activeBuses: what publicLiveBus makes of each node
    view,         \* publicRouteBuses/{route}
    catalog,      \* the route's entry of liveRouteCatalog, and the catalog's stamp
    announced,     \* clientProjectionStatus: ready, and who said so
    elected,      \* generation of the newest worker
    worker,       \* state of each worker
    steady,       \* history: nodes that nothing has changed, here or in the view, since the newest worker began
    moves, losses

projectionVars == <<source, view, catalog, announced, elected, worker, steady, moves, losses>>

Gone == "gone"
Unknown == "unknown"
Elected == 1 .. MaxElected
Value == {"x", Gone}
Larger(m, n) == IF m > n THEN m ELSE n

\* routeAvailability of a view.
Available(buses) == {k \in Nodes : buses[k] # Gone}

NoBuses == [k \in Nodes |-> Gone]
NoView == [there |-> FALSE, buses |-> NoBuses, revision |-> 0, stamp |-> 0]
NoEntry == [there |-> FALSE, buses |-> {}, revision |-> 0, by |-> 0, stamp |-> 0]
NoTask == [at |-> "idle", key |-> Unknown, value |-> Gone, buses |-> {}, revision |-> 0]

\* registered, prints and listed are the local caches; replay is where the
\* paged recovery is, floor and found what it read.
Fresh ==
    [alive |-> TRUE, registered |-> FALSE, prints |-> [k \in Nodes |-> Unknown], listed |-> {Unknown},
     pending |-> {}, task |-> NoTask, starting |-> {}, published |-> {}, told |-> "nothing",
     replay |-> "live", again |-> FALSE, floor |-> 0, found |-> NoView]
Off == [Fresh EXCEPT !.alive = FALSE, !.replay = "off"]

\* Admission: a key waits once; before readiness its first publication counts.
Scheduled(w, keys) ==
    [w EXCEPT !.pending = @ \union keys,
              !.starting = IF w.told = "ready" THEN @ ELSE @ \union (keys \ w.published)]

\* The listener first reports every node there is.
Started(nodes) ==
    [Scheduled(Fresh, Available(nodes)) EXCEPT !.prints = [k \in Nodes |-> IF nodes[k] = Gone THEN Unknown ELSE nodes[k]]]

ProjectionInit ==
    /\ source \in [Nodes -> Value]
    /\ view = NoView /\ catalog = NoEntry
    /\ announced = [public |-> FALSE, stamp |-> 0]
    /\ elected = 1
    /\ worker = [g \in Elected |-> IF g = 1 THEN Started(source) ELSE Off]
    /\ steady = Nodes
    /\ moves = 0 /\ losses = 0

Leads(g) == worker[g].alive /\ elected = g

-----------------------------------------------------------------------------
\* The live nodes, and the workers' lives.

\* An event, heard at once: what matters is when its task runs. A repeated
\* value is skipped by its fingerprint.
Heard(w, k, v) ==
    IF v = Gone THEN Scheduled([w EXCEPT !.prints[k] = Unknown], {k})
    ELSE IF w.prints[k] = v THEN w
    ELSE Scheduled([w EXCEPT !.prints[k] = v], {k})

Move(k) ==
    /\ moves < MaxMoves /\ moves' = moves + 1
    /\ \E v \in Value \ {source[k]} : source' = [source EXCEPT ![k] = v]
    /\ worker' = [worker EXCEPT ![elected] = Heard(@, k, source'[k])]
    /\ steady' = steady \ {k}
    /\ UNCHANGED <<view, catalog, announced, elected, losses>>

\* A worker stops or loses its lease; a transaction it was in may still commit.
Deposed(w) ==
    [Off EXCEPT !.task = IF w.task.at = "read" THEN NoTask ELSE w.task,
                !.replay = IF w.replay \in {"restore", "empty"} THEN w.replay ELSE "off",
                !.floor = w.floor, !.found = w.found]

Elect ==
    /\ elected < MaxElected
    /\ elected' = elected + 1
    /\ worker' = [worker EXCEPT ![elected] = Deposed(@), ![elected'] = Started(source)]
    /\ steady' = Nodes
    /\ UNCHANGED <<source, view, catalog, announced, moves, losses>>

LoseView ==
    /\ losses < MaxLosses /\ losses' = losses + 1
    /\ view.there /\ view' = NoView
    /\ steady' = {}
    /\ UNCHANGED <<source, catalog, announced, elected, worker, moves>>

-----------------------------------------------------------------------------
\* The paged recovery.

Requested(w) == IF w.replay = "off" THEN [w EXCEPT !.replay = "live"] ELSE [w EXCEPT !.again = TRUE]

\* The timer, beside errors; bound: it finds the worker at rest.
Recover(g) ==
    /\ Leads(g) /\ worker[g].replay = "off" /\ worker[g].pending = {} /\ worker[g].task.at = "idle"
    /\ worker' = [worker EXCEPT ![g] = Requested(@)]
    /\ UNCHANGED <<source, view, catalog, announced, elected, steady, moves, losses>>

EndsReplay(w) == [w EXCEPT !.replay = IF w.again THEN "live" ELSE "off", !.again = FALSE, !.found = NoView, !.floor = 0]

\* The pages of live nodes, then of the catalogue's routes: first the revision.
PageRead(w) ==
    CASE w.replay = "live" -> [Scheduled(w, Available(source)) EXCEPT !.replay = "routes"]
      [] w.replay = "routes" ->
            IF catalog.there THEN [w EXCEPT !.replay = "restore", !.floor = catalog.revision] ELSE EndsReplay(w)
      [] w.replay = "list" ->
            IF Available(view.buses) # {} THEN EndsReplay(Scheduled(w, Available(view.buses)))
            ELSE [w EXCEPT !.replay = "empty"]

ReadPage(g) ==
    /\ Leads(g) /\ worker[g].replay \in {"live", "routes", "list"}
    /\ worker' = [worker EXCEPT ![g] = PageRead(@)]
    /\ UNCHANGED <<source, view, catalog, announced, elected, steady, moves, losses>>

\* Faulty: a lost view counts its revisions from one again.
FromOne(v, floor) == IF v.there THEN v.revision ELSE 1

\* "Above the observed catalog".
Lineage(v, floor) == IF ~v.there \/ v.revision < floor THEN Larger(v.revision, floor) + 1 ELSE v.revision

\* What a transaction of worker g makes of a value; nothing of a successor's.
Restore(g) ==
    LET w == worker[g]
        restored == [view EXCEPT !.there = TRUE, !.revision = Lineage(view, w.floor), !.stamp = g]
    IN
    /\ w.replay = "restore"
    /\ view' = IF view.stamp > g THEN view ELSE restored
    /\ worker' = [worker EXCEPT ![g] = IF Leads(g) THEN [w EXCEPT !.replay = "list", !.found = view'] ELSE Off]
    /\ UNCHANGED <<source, catalog, announced, elected, steady, moves, losses>>

-----------------------------------------------------------------------------
\* materialize: one task of the route at a time.

\* Faulty: the catalogue follows with the publication.
ViewFirst(w) == "read"

\* "Persist discoverability before the view".
FirstStep(w) == IF w.registered THEN "read" ELSE "register"

Begin(g, k) ==
    /\ Leads(g) /\ worker[g].task.at = "idle" /\ k \in worker[g].pending
    /\ worker' = [worker EXCEPT ![g].pending = @ \ {k},
                                ![g].task = [NoTask EXCEPT !.at = FirstStep(worker[g]), !.key = k]]
    /\ UNCHANGED <<source, view, catalog, announced, elected, steady, moves, losses>>

\* After its transaction a worker that lost its lease does nothing more.
Proceeds(g, t) ==
    worker' = [worker EXCEPT ![g] = IF Leads(g) THEN [worker[g] EXCEPT !.task = t, !.registered = TRUE] ELSE Off]

Register(g) ==
    LET t == worker[g].task IN
    /\ t.at = "register"
    /\ catalog' = IF catalog.stamp > g THEN catalog ELSE [catalog EXCEPT !.there = TRUE, !.stamp = g]
    /\ Proceeds(g, [t EXCEPT !.at = "read"])
    /\ UNCHANGED <<source, view, announced, elected, steady, moves, losses>>

\* The authority is read, not the event.
ReadSource(g) ==
    LET t == worker[g].task IN
    /\ t.at = "read"
    /\ Proceeds(g, [t EXCEPT !.at = "write", !.value = source[t.key]])
    /\ UNCHANGED <<source, view, catalog, announced, elected, steady, moves, losses>>

WriteView(g) ==
    LET t == worker[g].task
        same == view.buses[t.key] = t.value
        written == [there |-> TRUE, buses |-> [view.buses EXCEPT ![t.key] = t.value],
                    revision |-> view.revision + 1, stamp |-> g]
    IN
    /\ t.at = "write"
    /\ view' = IF view.stamp > g THEN view
               ELSE IF ~same THEN written
               ELSE IF view.stamp = g THEN view ELSE [view EXCEPT !.there = TRUE, !.stamp = g]
    /\ Proceeds(g, [t EXCEPT !.at = "publish", !.buses = Available(view'.buses), !.revision = view'.revision])
    /\ UNCHANGED <<source, catalog, announced, elected, steady, moves, losses>>

\* A publication of this worker is not undone by an older view's.
NotBehind(g, revision) == catalog.stamp <= g /\ (catalog.by = g => catalog.revision <= revision)

\* publishCatalog, unless the worker listed the same before.
Entry(g, buses, revision) ==
    IF worker[g].listed # buses /\ NotBehind(g, revision)
    THEN [there |-> TRUE, buses |-> buses, revision |-> revision, by |-> g, stamp |-> g]
    ELSE catalog
Listed(g, buses) == IF catalog' # catalog THEN buses ELSE worker[g].listed

\* The task ends; its key has been published once.
Publish(g) ==
    LET t == worker[g].task IN
    /\ t.at = "publish"
    /\ catalog' = Entry(g, t.buses, t.revision)
    /\ worker' = [worker EXCEPT ![g] =
         IF Leads(g)
         THEN [worker[g] EXCEPT !.task = NoTask, !.listed = Listed(g, t.buses),
                                !.published = @ \union {t.key}, !.starting = @ \ {t.key}]
         ELSE Off]
    /\ UNCHANGED <<source, view, announced, elected, steady, moves, losses>>

\* The recovery lists a route without buses.
PublishEmpty(g) ==
    LET w == worker[g] IN
    /\ w.replay = "empty"
    /\ catalog' = Entry(g, Available(w.found.buses), w.found.revision)
    /\ worker' = [worker EXCEPT ![g] =
         IF Leads(g) THEN EndsReplay([w EXCEPT !.listed = Listed(g, Available(w.found.buses))]) ELSE Off]
    /\ UNCHANGED <<source, view, announced, elected, steady, moves, losses>>

\* A transaction or read fails, committed or not: the key is found again.
Failed(w, k) ==
    Requested([w EXCEPT !.task = NoTask, !.prints[k] = Unknown, !.starting = @ \ {k}, !.published = @ \ {k}])

Fail(g) ==
    /\ losses < MaxLosses /\ losses' = losses + 1
    /\ Leads(g) /\ worker[g].task.at # "idle"
    /\ worker' = [worker EXCEPT ![g] = Failed(@, @.task.key)]
    /\ UNCHANGED <<source, view, catalog, announced, elected, steady, moves>>

-----------------------------------------------------------------------------
\* Readiness.

\* Faulty: queued first publications are not waited for.
RecoveryEnded(w) == w.replay = "off"

Covered(w) == w.replay = "off" /\ w.starting = {}

Tell(g, state) ==
    /\ Leads(g)
    /\ worker[g].told = IF state = "ready" THEN "not ready" ELSE "nothing"
    /\ state = "ready" => Covered(worker[g])
    /\ announced' = IF announced.stamp > g THEN announced ELSE [public |-> state = "ready", stamp |-> g]
    /\ worker' = [worker EXCEPT ![g].told = state]
    /\ UNCHANGED <<source, view, catalog, elected, steady, moves, losses>>

-----------------------------------------------------------------------------
ReplayStep(g) == ReadPage(g) \/ Restore(g) \/ PublishEmpty(g)
ViewStep(g) == Register(g) \/ ReadSource(g) \/ WriteView(g) \/ Publish(g)

ProjectionNext ==
    \/ \E k \in Nodes : Move(k) \/ \E g \in Elected : Begin(g, k)
    \/ Elect \/ LoseView
    \/ \E g \in Elected : Recover(g) \/ ReplayStep(g) \/ ViewStep(g) \/ Fail(g)
                          \/ Tell(g, "not ready") \/ Tell(g, "ready")

ProjectionSpec == ProjectionInit /\ [][ProjectionNext]_projectionVars

-----------------------------------------------------------------------------
\* Properties.

\* What the view shows can be found: a crash leaves no bus in a view that no
\* recovery scan visits (liveBusProjection.ts:151).
ViewIsListed == Available(view.buses) # {} => catalog.there

\* And when a worker says that the views are complete, every bus that has been
\* there since it began is shown as it is (liveBusProjection.ts:111, 301).
ViewsAreWhole ==
    [][/\ ViewIsListed'
       /\ announced'.public /\ ~announced.public => \A k \in steady : view.buses[k] = source[k]]_projectionVars

\* Whatever failed, and whichever worker wrote last, the view and the catalogue
\* come to show the live nodes, and stay so while these do not change.
PublicFollows ==
    <>[](view.buses = source /\ (catalog.there => catalog.buses = Available(source)))
=============================================================================
