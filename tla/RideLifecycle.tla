---------------------------- MODULE RideLifecycle ----------------------------
(* The life of ride sessions on one bus: starts and admission (RideStart), the *)
(* engine and restores (RideWorker), End ride early (POST /api/shifts/stop)    *)
(* and the hourly reconciliation of abandoned rides. Each works in several     *)
(* transactions on two stores, and any may stop after any of them.             *)
EXTENDS RideWorker

CONSTANTS
    MaxStops,      \* requests to end a ride early (bound)
    Actors         \* who takes part: a subset of AllActors

AllActors == {"engine", "restore", "stop", "scan"}

ASSUME StopAssumption == MaxStops \in Nat /\ Actors \subseteq AllActors

VARIABLES
    stop,       \* the End ride early request in work
    stops,      \* such requests so far
    scan        \* the session the reconciler is at

endVars == <<stop, stops, scan>>
vars == <<storeVars, startVars, workerVars, endVars>>

NoStop == [pc |-> "idle", sid |-> None]
NoScan == [pc |-> "idle", sid |-> None, live |-> Unseen]

TypeOK ==
    /\ StoreTypeOK /\ StartTypeOK /\ WorkerTypeOK
    /\ stop \in [pc : {"idle", "commit", "retire"}, sid : Maybe]
    /\ stops \in 0 .. MaxStops
    /\ scan \in [pc : {"idle", "retire", "commit"}, sid : Maybe, live : Glances]

Init == StoreInit /\ StartInit /\ WorkerInit /\ stop = NoStop /\ stops = 0 /\ scan = NoScan

-----------------------------------------------------------------------------
(* End ride early.                                                             *)

ReadStop(s) ==
    /\ stop.pc = "idle" /\ stops < MaxStops
    /\ status[s] \notin {"none", "completed"}
    /\ stop' = [pc |-> "commit", sid |-> s]
    /\ stops' = stops + 1
    /\ UNCHANGED <<storeVars, startVars, workerVars, scan>>

\* One transaction ends the session, or repeats the cleanup of an interrupted
\* one, and pauses automatic service while the session still owns the bus.
CommitStop ==
    /\ stop.pc = "commit"
    /\ LET s == stop.sid
           owns == lock = s \/ (lock = None /\ ride.session = s)
       IN  /\ Open(s) \/ status[s] = "interrupted"
           /\ IF Open(s) THEN SetStatus(s, "interrupted") ELSE UNCHANGED <<status, quiet>>
           /\ DropRideOf(s)
           /\ DropLockOf(s)
           /\ fleet' = IF owns THEN [fleet EXCEPT !.paused = TRUE] ELSE fleet
    /\ stop' = [stop EXCEPT !.pc = "retire"]
    /\ UNCHANGED <<prev, binding, node, issued, startVars, workerVars, stops, scan>>

RetireStopped ==
    /\ stop.pc = "retire"
    /\ node' = IF node.session = stop.sid THEN [Presence EXCEPT !.paused = TRUE, !.age = node.age] ELSE node
    /\ stop' = NoStop
    /\ UNCHANGED <<firestoreVars, startVars, workerVars, stops, scan>>

\* The session had ended otherwise, or the request failed.
AbandonStop ==
    /\ stop.pc # "idle"
    /\ stop' = NoStop
    /\ UNCHANGED <<storeVars, startVars, workerVars, stops, scan>>

-----------------------------------------------------------------------------
(* Reconciliation of abandoned rides.                                          *)

\* Twelve hours pass in which nothing is in flight and nothing is written.
Older(age) == IF age < MaxAge THEN age + 1 ELSE age

Silence ==
    /\ \A r \in Requests : At(r, "idle")
    /\ JobAt("idle") /\ event = Unseen /\ restore = NoRestore /\ stop = NoStop /\ scan = NoScan
    /\ quiet' = [s \in Sessions |-> Older(quiet[s])]
    /\ ride' = [ride EXCEPT !.age = Older(@)]
    /\ node' = [node EXCEPT !.age = Older(@)]
    /\ UNCHANGED <<status, prev, lock, fleet, binding, issued, startVars, workerVars, endVars>>

\* An automatic return that never departed is given 24 hours, other rides 12.
UnusedReturn(s, live) ==
    /\ status[s] = "armed" /\ prev[s] # None
    /\ ride.session = s /\ ride.trip = "pre"
    /\ live.session = s => live.trip = "pre"

Abandoned(s, live) ==
    LET limit == IF UnusedReturn(s, live) THEN 2 ELSE 1
    IN  /\ Open(s)
        /\ quiet[s] >= limit
        /\ ride.session = s => ride.age >= limit
        /\ live.session = s => live.age >= limit

ScanSession(s) ==
    /\ scan.pc = "idle"
    /\ Abandoned(s, node)
    /\ scan' = [NoScan EXCEPT !.pc = "retire", !.sid = s]
    /\ UNCHANGED <<storeVars, startVars, workerVars, stop, stops>>

\* Removes the live record of the silent ride; a record that spoke meanwhile
\* protects it (AbandonScan).
RetireScanned ==
    /\ scan.pc = "retire"
    /\ LET mine == node.session = scan.sid
       IN  /\ mine => node.age > 0
           /\ node' = IF mine THEN NoNode ELSE node
           /\ scan' = [scan EXCEPT !.pc = "commit", !.live = IF mine THEN Glance(node) ELSE Unseen]
    /\ UNCHANGED <<firestoreVars, startVars, workerVars, stop, stops>>

CommitScan ==
    /\ scan.pc = "commit"
    /\ LET s == scan.sid
       IN  /\ Abandoned(s, scan.live)
           /\ SetStatus(s, "interrupted")
           /\ DropRideOf(s)
           /\ DropLockOf(s)
    /\ scan' = NoScan
    /\ UNCHANGED <<prev, fleet, binding, node, issued, startVars, workerVars, stop, stops>>

AbandonScan ==
    /\ scan.pc # "idle"
    /\ scan' = NoScan
    /\ UNCHANGED <<storeVars, startVars, workerVars, stop, stops>>

-----------------------------------------------------------------------------
Starting == (\E r \in Requests : StartStep(r)) /\ UNCHANGED <<workerVars, endVars>>
Working == "engine" \in Actors /\ EngineStep /\ UNCHANGED <<startVars, endVars>>
Restoring == "restore" \in Actors /\ RestoreStep /\ UNCHANGED <<startVars, endVars>>
Device == (Telemetry \/ SweepNode) /\ UNCHANGED <<startVars, workerVars, endVars>>
Stopping == "stop" \in Actors /\ ((\E s \in Sessions : ReadStop(s)) \/ CommitStop \/ RetireStopped \/ AbandonStop)
Reconciling ==
    "scan" \in Actors
        /\ ((\E s \in Sessions : ScanSession(s)) \/ RetireScanned \/ CommitScan \/ AbandonScan \/ Silence)

Next == Starting \/ Working \/ Restoring \/ Device \/ Stopping \/ Reconciling

Spec == Init /\ [][Next]_vars

-----------------------------------------------------------------------------
(* Properties.                                                                 *)

\* The bus lock names exactly the session that is not over: no two open rides
\* share the bus, no open ride loses it, and no ended ride keeps it (the comment
\* at rideSessionStart.ts:552: "a failed session must never keep owning the bus
\* lock"). The lock, the status and the requests that hold stale reads of both
\* are changed by five kinds of transactions.
LockIsOwner == \A s \in Sessions : Open(s) <=> lock = s

\* The durable progress record, which a restore trusts, belongs to the ride that
\* holds the bus; only the loser of a race for the live record, which fails its
\* session whatever a retry made of it meanwhile, can leave one behind.
RideIsOwners == ride.session # None => lock = ride.session \/ status[ride.session] = "failed"

\* Both: who owns the bus and whose progress is kept are decided together,
\* although four kinds of documents say so (rideSessionStart.ts:447).
Ownership == LockIsOwner /\ RideIsOwners

\* A bus paused by End ride early carries no ride and has no return waiting, so
\* neither admission nor a turnaround can put it back into service: only a
\* deliberate start does. The turnaround itself never reads the pause.
PauseHolds == fleet.paused => /\ lock = None
                              /\ fleet.journey.session # None => fleet.journey.consumedBy # None

\* A completed ride has one automatic return at most, although the claim in RTDB
\* may be taken again after a crash.
OneReturn == \A s, t \in Sessions : prev[s] = prev[t] /\ prev[s] # None => s = t

\* What is shown live of an open ride is never ahead of what is durable: a crash
\* cannot take passengers back to an earlier stop. (A ride that its start failed
\* while a retry drove it may go on being shown unpersisted, tripStateEngine.ts:1002;
\* nothing is ever restored of it.)
LiveBehindDurable ==
    \A s \in Sessions : Open(s) /\ LiveFor(node, s) /\ ride.session = s => node.idx <= ride.idx

\* "A completed, interrupted or failed session is terminal"
\* (docs/api/RIDE_SESSION_CONTRACT.md): no step reopens it.
TerminalStays == [][\A s \in Sessions : Terminal(s) => Terminal(s)']_vars

\* The live record of an open ride never goes back to an earlier stop, although
\* restores and engine jobs write it from what they read before; and no ride's
\* record goes back from completed to running.
LiveAdvances ==
    \A s \in Sessions :
        (node.session = s /\ node'.session = s)
            => /\ node.trip = "done" => node'.trip = "done"
               /\ Open(s) => node.idx <= node'.idx

\* A ride that ended without completing is not shown live again: "Telemetry from
\* the device keeps the bus visible as online but cannot recreate the ended ride"
\* (docs/api/RIDE_SESSION_CONTRACT.md).
EndedStaysDark ==
    [][\A s \in Sessions :
           status[s] = "interrupted" /\ ~LiveFor(node, s) => ~LiveFor(node', s)]_vars

\* Once the device of a bus falls silent for good, its ride is ended and the bus
\* is free, whatever fails on the way and however often the engine sees the old
\* fix again ("so a silent ride would never time out", tripStateEngine.ts).
SilentBusIsFreed == <>[](~node.exists \/ node.age = MaxAge) => <>[](lock = None)

\* "a session with recent or unknown activity is protected"
\* (docs/operations/RECONCILIATION.md:39): the reconciler does not end a ride
\* whose device is back and shown live.
RecentIsProtected ==
    [][\A s \in Sessions :
           Open(s) /\ status'[s] = "interrupted" /\ scan # NoScan => ~(LiveFor(node, s) /\ node.age = 0)]_vars

\* A key's requests all work on the one session it is bound to.
KeyNamesOneRide ==
    \A r \in Requests \ Keyless :
        req[r].pc \in {"live", "recover", "lose", "check", "commit", "setup"} => Bound(r) = req[r].sid
=============================================================================
