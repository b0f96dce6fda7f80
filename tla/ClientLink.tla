-------------------------------- MODULE ClientLink --------------------------------
(* The dashboard's live list over a connection that breaks: hooks/useRTDBResume.ts, *)
(* its reducer in rtdbResumeState.ts and hooks/useActiveBuses.ts, on the live store *)
(* of ClientFeeds, for one verified account. Firebase reports its socket under      *)
(* .info/connected; the page restarts it after a long suspension, and calls its     *)
(* list current only after a snapshot of the connection it has now.                 *)
EXTENDS ClientFeeds

VARIABLES
    link,   \* Firebase's socket, and what the hook's effect keeps of it
    life    \* the reducer's state, the effect's dependencies, and what the list says

linkVars == <<link, life>>

\* A workspace whose account is verified.
SignedIn(a) ==
    /\ code = "loaded" /\ principal = a /\ generation = 1 /\ ready = TRUE /\ checks = {}
    /\ page = [user |-> a, loading |-> FALSE, error |-> "none", known |-> TRUE]
    /\ recovery = Fresh /\ leaving = [at |-> "no", gen |-> 0, caches |-> FALSE] /\ events = 0
    /\ panel = [chosen |-> TRUE, mounted |-> TRUE, key |-> [owner |-> a, gen |-> 1, cache |-> 0], dirty |-> FALSE]
    /\ entry = EmptyEntry([owner |-> a, gen |-> 1, cache |-> 0])
    /\ cacheGen = 0 /\ store = Ensured(IdleStore)

\* socket dead: broken, and Firebase does not know yet. away: hidden for 30 s.
LinkInit ==
    /\ link = [socket |-> "down", online |-> TRUE, seen |-> TRUE, away |-> FALSE, connected |-> FALSE,
               disconnected |-> FALSE, suspended |-> FALSE, timer |-> FALSE, cooling |-> FALSE]
    /\ life = [connected |-> FALSE, awaiting |-> TRUE, pending |-> FALSE, conn |-> 0, resume |-> 0,
               rendered |-> <<0, 0>>, failed |-> FALSE, list |-> "unknown"]

-----------------------------------------------------------------------------
\* reduceRTDBResumeLifecycle.

\* Faulty: what was received over the last connection still counts.
KeepsWaiting(l, up) ==
    [l EXCEPT !.connected = up, !.conn = IF up /\ ~l.connected THEN @ + 1 ELSE @]
Connection(l, up) ==
    [l EXCEPT !.connected = up, !.awaiting = IF up THEN @ ELSE TRUE,
              !.conn = IF up /\ ~l.connected THEN @ + 1 ELSE @]
ReconnectRequested(l) ==
    IF l.pending THEN l
    ELSE [l EXCEPT !.connected = FALSE, !.awaiting = TRUE, !.pending = TRUE, !.resume = @ + 1]
SnapshotReceived(l) == IF l.connected THEN [l EXCEPT !.awaiting = FALSE] ELSE l

\* The list hears of every reset; an invalidation empties it.
Emptied(l) == [l EXCEPT !.list = "unknown"]

IsResuming == ~life.connected \/ life.awaiting

-----------------------------------------------------------------------------
\* The effect.

Available(k) == k.seen /\ k.online
Cancelled(k) == [k EXCEPT !.timer = FALSE]

\* scheduleReconnect; nothing is restarted during the cooldown.
ScheduledReconnect(k, afterSuspension) ==
    LET s == [k EXCEPT !.suspended = @ \/ afterSuspension] IN
    IF ~Available(s) \/ ~(s.suspended \/ s.disconnected) \/ s.cooling THEN s ELSE [s EXCEPT !.timer = TRUE]

\* markDisconnected: only the first report of a gap revokes what the list shows.
MarkDisconnected(k) ==
    /\ life' = Connection(IF k.disconnected THEN life ELSE Emptied(life), FALSE)
    /\ store' = IF k.disconnected THEN store ELSE Invalidated(store)

\* .info/connected is true.
Heals ==
    /\ link.socket = "down" /\ link.online
    /\ link' = LET k == [link EXCEPT !.socket = "up", !.connected = TRUE, !.disconnected = FALSE] IN
               IF k.suspended THEN k ELSE Cancelled(k)
    /\ life' = Connection(life, TRUE)
    /\ UNCHANGED <<sessionVars, feeds>>

\* .info/connected is false, for the socket broke or was found dead.
ReportsGap(k) ==
    LET down == [k EXCEPT !.socket = "down", !.connected = FALSE, !.disconnected = @ \/ k.connected] IN
    /\ link' = IF k.connected THEN ScheduledReconnect(down, FALSE) ELSE down
    /\ IF k.connected THEN MarkDisconnected(k)
       ELSE life' = Connection(life, FALSE) /\ UNCHANGED store

Breaks ==
    /\ Happens /\ link.socket = "up"
    /\ ReportsGap(link)
    /\ UNCHANGED <<code, principal, generation, ready, checks, page, recovery, leaving, panel, entry, cacheGen>>
Dies ==
    /\ Happens /\ link.socket = "up"
    /\ link' = [link EXCEPT !.socket = "dead"]
    /\ UNCHANGED <<code, principal, generation, ready, checks, page, recovery, leaving, feeds, life>>
FoundDead ==
    /\ link.socket = "dead"
    /\ ReportsGap(link)
    /\ UNCHANGED <<sessionVars, panel, entry, cacheGen>>

\* The browser is offline; Firebase closes its socket, and opens it when it is back.
GoesOffline ==
    /\ Happens /\ link.online
    /\ link' = Cancelled([link EXCEPT !.online = FALSE, !.socket = "down", !.connected = FALSE, !.disconnected = TRUE])
    /\ MarkDisconnected(link)
    /\ UNCHANGED <<code, principal, generation, ready, checks, page, recovery, leaving, panel, entry, cacheGen>>

\* The page is hidden; it may be for long, and the socket may die.
IsHidden ==
    /\ Happens /\ link.seen
    /\ \E long \in BOOLEAN, dies \in BOOLEAN :
          link' = Cancelled([link EXCEPT !.seen = FALSE, !.away = long,
                                         !.socket = IF dies /\ @ = "up" THEN "dead" ELSE @])
    /\ UNCHANGED <<code, principal, generation, ready, checks, page, recovery, leaving, feeds, life>>

IsBack ==
    /\ \/ ~link.seen /\ link' = ScheduledReconnect([link EXCEPT !.seen = TRUE, !.away = FALSE], link.away)
       \/ ~link.online /\ link' = ScheduledReconnect([link EXCEPT !.online = TRUE], FALSE)
    /\ UNCHANGED <<sessionVars, feeds, life>>

\* The timer: Firebase is taken offline and online again.
Reconnects ==
    /\ link.timer /\ Available(link)
    /\ IF link.suspended \/ link.disconnected
       THEN /\ link' = [link EXCEPT !.timer = FALSE, !.suspended = FALSE, !.cooling = TRUE,
                                    !.connected = FALSE, !.disconnected = TRUE, !.socket = "down"]
            /\ life' = LET asked == Emptied(ReconnectRequested(life)) IN
                       IF link.socket = "down" THEN asked ELSE Connection(asked, FALSE)
            /\ store' = Invalidated(store)
       ELSE link' = Cancelled(link) /\ UNCHANGED <<life, store>>
    /\ UNCHANGED <<sessionVars, panel, entry, cacheGen>>

CooldownEnds ==
    /\ link.cooling
    /\ link' = [link EXCEPT !.cooling = FALSE] /\ life' = [life EXCEPT !.pending = FALSE]
    /\ UNCHANGED <<sessionVars, feeds>>

-----------------------------------------------------------------------------
\* useActiveBuses.

\* A new connection, rendered, makes the list subscribe anew; it keeps its rows.
Resubscribes ==
    /\ life.rendered # <<life.conn, life.resume>>
    /\ life' = [life EXCEPT !.rendered = <<life.conn, life.resume>>]
    /\ store' = Ensured(IdleStore)
    /\ UNCHANGED <<sessionVars, panel, entry, cacheGen, link>>

ListHears ==
    /\ link.socket = "up" /\ StoreHears
    /\ life' = [SnapshotReceived(life) EXCEPT !.failed = FALSE, !.list = "known"]
    /\ UNCHANGED link

ListFails ==
    /\ link.socket = "up" /\ StoreFails
    /\ life' = [Emptied(life) EXCEPT !.failed = TRUE]
    /\ UNCHANGED link

ListStarts == (StoreWakes \/ StoreRetries) /\ UNCHANGED linkVars

LinkNext ==
    \/ Heals \/ Breaks \/ Dies \/ FoundDead \/ GoesOffline \/ IsHidden \/ IsBack
    \/ Reconnects \/ CooldownEnds
    \/ Resubscribes \/ ListHears \/ ListFails \/ ListStarts

-----------------------------------------------------------------------------
\* An empty answer is never shown for an unknown one: an account that has not
\* been verified is not taken for nobody, and the list says that no bus runs
\* only after a snapshot of the connection it has now (RoleGuard's redirect,
\* the dashboard's empty list).
UnknownIsNotNone ==
    /\ ~page.loading /\ page.user = NoOne /\ page.error = "none" => principal = NoOne
    /\ ~IsResuming /\ ~life.failed => life.list = "known"

\* The list is live again after the last break, failure or suspension.
LiveAgain == ~IsResuming /\ ~life.failed /\ store.data = principal
=============================================================================
