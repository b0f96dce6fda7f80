------------------------------- MODULE ClientFeeds -------------------------------
(* What a workspace of the page shows, and for whom: the shared live store of      *)
(* lib/createLiveBusStore.ts and a Firestore query behind hooks/useCollection.ts,  *)
(* under the session of ClientSession. A verification revokes the live listener    *)
(* at once; a query is keyed by the account, the verification and the cache's      *)
(* generation, and the workspace finds its key when React renders it next.         *)
EXTENDS ClientSession

VARIABLES
    store,     \* the live store: listener, start under way, data, retry timer
    panel,     \* the workspace: chosen, mounted, key of its query, to be rendered
    entry,     \* the query's cache entry
    cacheGen   \* cacheGeneration

feeds == <<store, panel, entry, cacheGen>>
clientVars == <<sessionVars, feeds>>

NoGen == 0
NoKey == [owner |-> NoOne, gen |-> NoGen, cache |-> 0]

\* starting: a start waits for the session; stale when the epoch moved since.
IdleStore == [listen |-> NoGen, starting |-> "no", data |-> NoOne, retry |-> FALSE]
EmptyEntry(k) ==
    [key |-> k, data |-> NoOne, loading |-> TRUE, error |-> "none", listening |-> FALSE, waits |-> FALSE]

FeedsInit ==
    /\ store = IdleStore
    /\ panel = [chosen |-> TRUE, mounted |-> FALSE, key |-> NoKey, dirty |-> FALSE]
    /\ entry = EmptyEntry(NoKey)
    /\ cacheGen = 0

-----------------------------------------------------------------------------
\* The live store; it has a subscriber exactly while the workspace is mounted.

Ensured(s) ==
    IF s.listen # NoGen \/ s.starting # "no" \/ s.retry THEN s ELSE [s EXCEPT !.starting = "current"]
Detached(s) ==
    [s EXCEPT !.listen = NoGen, !.data = NoOne, !.starting = IF @ = "current" THEN "stale" ELSE @]
Invalidated(s) == Ensured(Detached(s))

StoreWakes ==
    /\ panel.mounted /\ store.starting # "no" /\ ready
    /\ store' = IF store.starting = "stale" THEN Ensured([store EXCEPT !.starting = "no"])
                ELSE [store EXCEPT !.starting = "no", !.listen = generation]
    /\ UNCHANGED <<sessionVars, panel, entry, cacheGen>>

StoreHears ==
    /\ store.listen # NoGen
    /\ store.listen = generation /\ store' = [store EXCEPT !.data = principal]
    /\ UNCHANGED <<sessionVars, panel, entry, cacheGen>>

StoreFails ==
    /\ Happens /\ store.listen # NoGen
    /\ store' = [IdleStore EXCEPT !.retry = TRUE, !.starting = store.starting]
    /\ UNCHANGED <<code, principal, generation, ready, checks, page, recovery, leaving, panel, entry, cacheGen>>

StoreRetries ==
    /\ store.retry /\ store' = Ensured([store EXCEPT !.retry = FALSE])
    /\ UNCHANGED <<sessionVars, panel, entry, cacheGen>>

-----------------------------------------------------------------------------
\* The query.

InCache == entry.key.cache = cacheGen
\* Faulty: only the cache is asked.
StillCached == InCache /\ panel.mounted
\* What a callback of the listener checks before it writes.
IsCurrentEntry == entry.key.gen = generation /\ InCache /\ panel.mounted

QueryWakes ==
    /\ entry.waits /\ ready
    /\ entry' = [entry EXCEPT !.waits = FALSE, !.listening = @ \/ IsCurrentEntry]
    /\ UNCHANGED <<sessionVars, store, panel, cacheGen>>

\* The rules answer for whoever is signed in now.
QueryHears ==
    /\ entry.listening
    /\ IsCurrentEntry
    /\ entry' = [entry EXCEPT !.data = principal, !.loading = FALSE, !.error = "none"]
    /\ panel' = [panel EXCEPT !.dirty = TRUE]
    /\ UNCHANGED <<sessionVars, store, cacheGen>>

QueryFails ==
    /\ entry.listening
    /\ Happens
    /\ IF IsCurrentEntry
       THEN /\ \E e \in {"failed", "denied"} :
                  entry' = [entry EXCEPT !.error = e, !.loading = FALSE, !.listening = FALSE]
            /\ panel' = [panel EXCEPT !.dirty = TRUE]
       ELSE entry' = [entry EXCEPT !.listening = FALSE] /\ UNCHANGED panel
    /\ UNCHANGED <<code, principal, generation, ready, checks, page, recovery, leaving, store, cacheGen>>

-----------------------------------------------------------------------------
\* React.

\* RoleGuard mounts a workspace for a verified account only.
Mounts == panel.chosen /\ page.user # NoOne /\ ~page.loading /\ page.error = "none"

KeyNow == [owner |-> page.user, gen |-> generation, cache |-> cacheGen]

\* The last consumer leaves the entry; the next one under the same key takes it up.
Left(e) == [e EXCEPT !.listening = FALSE, !.loading = TRUE]
Taken(e, k) == [IF e.key = k THEN e ELSE EmptyEntry(k) EXCEPT !.waits = @ \/ ~(e.key = k /\ e.listening)]

Render ==
    /\ panel.dirty
    /\ panel' = [panel EXCEPT !.dirty = FALSE, !.mounted = Mounts, !.key = IF Mounts THEN KeyNow ELSE NoKey]
    /\ entry' = LET left == IF panel.mounted /\ panel'.key # panel.key THEN Left(entry) ELSE entry IN
                IF Mounts /\ panel'.key # panel.key THEN Taken(left, KeyNow) ELSE left
    /\ store' = IF Mounts = panel.mounted THEN store
                ELSE IF Mounts THEN Ensured(IdleStore) ELSE IdleStore
    /\ UNCHANGED <<sessionVars, cacheGen>>

\* The tab of the workspace is left or chosen.
Choose ==
    /\ Happens
    /\ panel' = [panel EXCEPT !.chosen = ~@, !.dirty = TRUE]
    /\ UNCHANGED <<code, principal, generation, ready, checks, page, recovery, leaving, store, entry, cacheGen>>

\* retry, next to the query's message.
Retry ==
    /\ Happens /\ panel.mounted /\ InCache /\ entry.key = panel.key /\ entry.error # "none"
    /\ IF entry.error = "denied"
       THEN RefreshesAccess /\ UNCHANGED entry
       ELSE /\ entry' = [entry EXCEPT !.listening = FALSE, !.error = "none", !.loading = TRUE, !.waits = TRUE]
            /\ UNCHANGED <<generation, ready, checks, page, recovery>>
    /\ panel' = [panel EXCEPT !.dirty = TRUE]
    /\ UNCHANGED <<code, principal, leaving, cacheGen>>

-----------------------------------------------------------------------------
\* Faulty: the consumers keep their key.
ClearsUnderSameKey ==
    /\ UNCHANGED cacheGen
    /\ entry' = [entry EXCEPT !.data = NoOne, !.loading = TRUE, !.error = "none", !.listening = FALSE]
    /\ panel' = [panel EXCEPT !.dirty = @ \/ panel.mounted]
\* clearCollectionCache and invalidateLiveBusCache, at the end of a sign-out.
ClearsCollections ==
    /\ cacheGen' = cacheGen + 1
    /\ entry' = [entry EXCEPT !.data = NoOne, !.loading = TRUE, !.error = "none", !.listening = FALSE]
    /\ panel' = [panel EXCEPT !.dirty = @ \/ panel.mounted]

\* The verification's start is told to the live store before anything else runs.
Told == IF panel.mounted /\ generation' # generation THEN Invalidated(store) ELSE store

SessionStep ==
    /\ SessionNext
    /\ IF leaving.caches /\ ~leaving'.caches
       THEN /\ ClearsCollections
            /\ store' = IF panel.mounted THEN Invalidated(store) ELSE store
       ELSE /\ store' = Told
            /\ panel' = [panel EXCEPT !.dirty = @ \/ page' # page]
            /\ UNCHANGED <<entry, cacheGen>>

AccessStep == Retry /\ store' = Told

FeedStep ==
    \/ StoreWakes \/ StoreHears \/ StoreFails \/ StoreRetries
    \/ QueryWakes \/ QueryHears \/ QueryFails
    \/ Render \/ Choose \/ AccessStep

ClientInit == SessionInit /\ FeedsInit
ClientNext == SessionStep \/ FeedStep

-----------------------------------------------------------------------------
\* Whatever verifications, sign-outs and late answers race, the page shows what
\* belongs to the account Firebase has: its user, the rows of the live listener,
\* the query kept under its owner's key, which a rendered workspace has
\* (authState's generations, isCurrentEntry).
NothingOfOthers ==
    /\ page.user \in {NoOne, principal}
    /\ store.data \in {NoOne, principal}
    /\ entry.data \in {NoOne, entry.key.owner}
    /\ panel.mounted /\ ~panel.dirty =>
           panel.key = [owner |-> principal, gen |-> generation, cache |-> cacheGen]

\* The workspace, or the message, that every change ends in. Only a sign-out here
\* after one in another tab loads on: Firebase reports nothing.
FeedsSettle ==
    /\ page.known
    /\ page.loading => principal = NoOne /\ ~ready /\ checks = {}
    /\ Mounts => /\ panel.mounted /\ store.data = principal
                 /\ ~entry.loading /\ (entry.data = principal \/ entry.error # "none")
=============================================================================
