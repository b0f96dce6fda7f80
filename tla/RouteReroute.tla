-------------------------------- MODULE RouteReroute --------------------------------
(* The path a live bus is matched to: services/telemetryRouteService.ts with   *)
(* routeMatching.ts and rerouteRetry.ts. Every replica matches the newest fix  *)
(* it was sent and, beside it, asks the provider for a new path when the bus   *)
(* left its route or is about to depart. Both read the live node, work, and    *)
(* write it in a transaction; a new path is stored under a version of its own, *)
(* which the node then points to. The worker collects old versions.            *)
(* A ride has one direction here (RideDirection is about the other rides).     *)
EXTENDS Integers, FiniteSets

CONSTANTS
    Replicas,
    MaxRides,     \* bound: rides of the bus
    MaxEdits,     \* bound: edits of the route
    Attempts      \* attempts of a departure context, 3 in the code

ASSUME ReplicaAssumption == IsFiniteSet(Replicas)

VARIABLES
    live,       \* the route context of activeBuses/{node}
    matching,   \* processTelemetryRoute of the newest fix
    queued,     \* the newest request in the rerouteScheduler of each replica
    call,       \* requestReroute or refreshDepartureRoute of each replica
    known,      \* the route configuration each replica has
    config,     \* the route configuration
    geometry,   \* activeRouteGeometry/{node}: version -> path
    paid        \* history: the delay after the last request of this context runs

routeVars == <<live, matching, queued, call, known, config, geometry, paid>>

Nothing == "none"
NoDeparture == [state |-> Nothing, phase |-> Nothing, by |-> Nothing, tries |-> 0, waits |-> FALSE]

Preview(phase) == [NoDeparture EXCEPT !.state = "ready", !.phase = phase]

\* version 0: no context. owner: routeSessionId. waits: rerouteRetry holds back
\* the next claim. aged: the claim is older than STRANDED_REROUTE_AFTER_MS.
NewLive(ride) ==
    [ride |-> ride, trip |-> "pre_departure", version |-> 0, source |-> Nothing, owner |-> 0, config |-> 0,
     state |-> Nothing, request |-> Nothing, aged |-> FALSE, waits |-> FALSE, departure |-> NoDeparture]

\* by: the replica the fix was sent to. What a match took from the node: its
\* path, its state, whether its context is another ride's or another geometry's,
\* and whether a preview is reused.
NoMatch == [by |-> Nothing, ride |-> 0, config |-> 0, version |-> 0, source |-> Nothing,
            previous |-> Nothing, changed |-> FALSE, reuse |-> FALSE]
NoRequest == [kind |-> Nothing, ride |-> 0, version |-> 0, config |-> 0]
NoCall == [at |-> "idle", task |-> NoRequest, phase |-> Nothing, version |-> 0, late |-> FALSE]
NoPath == [ride |-> 0, config |-> 0, found |-> FALSE]

Versions == 1 .. 3 * Cardinality(Replicas) + 4

RouteInit ==
    /\ live = NewLive(1)
    /\ matching = NoMatch
    /\ queued = [r \in Replicas |-> NoRequest]
    /\ call = [r \in Replicas |-> NoCall]
    /\ known = [r \in Replicas |-> 1]
    /\ config = 1
    /\ geometry = [v \in Versions |-> NoPath]
    /\ paid = FALSE

\* max(version + 1, now): a version nothing refers to. The first one of a ride is 1.
InUse ==
    {1, live.version, matching.version} \union {v \in Versions : geometry[v] # NoPath}
        \union {queued[r].version : r \in Replicas} \union {call[r].task.version : r \in Replicas}
        \union {call[r].version : r \in Replicas}
FreshVersion == CHOOSE v \in Versions \ InUse : TRUE

\* A path that neither the node nor a publisher names only waits for the sweep;
\* nothing reads it, and it is forgotten at once.
ForgetPaths ==
    geometry' = [v \in Versions |-> IF v = live'.version \/ \E r \in Replicas : call'[r].version = v
                                    THEN geometry[v] ELSE NoPath]

-----------------------------------------------------------------------------
\* Matching: processTelemetryRoute.

\* Faulty: a claim is waited for, however old it is.
AnyState == live.state

\* A claim that outlived its request counts as off route again.
PreviousState == IF live.state = "REROUTING" /\ live.aged THEN "OFF_ROUTE" ELSE live.state

\* departureRoutePlan: the preview is for the ride still waiting, and is
\* computed again at departure unless one is ready and recent.
Phase(l) == IF l.trip = "pre_departure" THEN "ready" ELSE "departure"
Reusable(l) == Phase(l) = "departure" /\ l.departure.phase = "ready" /\ l.departure.state = "ready"
DepartureDue(l) ==
    LET same == l.departure.phase = Phase(l) IN
    /\ l.trip # "completed"
    /\ ~(same /\ (l.departure.state = "ready" \/ l.departure.tries >= Attempts))
    /\ same => ~l.departure.waits

\* A fix is recorded and scheduled at the replica that received it, which reads
\* the node and its cached route. What any replica still does for an earlier fix
\* ends without a write: left out.
Fix(r) ==
    /\ live.trip # "completed"
    /\ LET changed == live.owner # live.ride \/ live.config # known[r] IN
       matching' = [by |-> r, ride |-> live.ride, config |-> known[r],
                    version |-> live.version, source |-> live.source, previous |-> PreviousState,
                    changed |-> changed, reuse |-> ~changed /\ Reusable(live)]
    /\ UNCHANGED <<live, queued, call, known, config, geometry, paid>>

\* evaluateRouteAdherence: on the path, no evidence (ambiguous, or not moving),
\* a first deviation, or a confirmed one.
Adherence(previous) ==
    {IF previous = "ON_NEW_ROUTE" THEN previous ELSE "ON_ROUTE",
     IF previous = "REROUTING" THEN previous ELSE "POSSIBLE_OFF_ROUTE",
     IF previous = "REROUTING" THEN previous ELSE "OFF_ROUTE"}

\* Ride, route and path are those the fix was matched to.
StillMatched ==
    /\ known[matching.by] = matching.config
    /\ live.ride = matching.ride /\ live.version = matching.version

\* Another context, or back on the path: earlier requests do not count.
Settles(reset, state) == reset \/ state \in {"ON_ROUTE", "ON_NEW_ROUTE"}

Matched(m, reset, state) ==
    [live EXCEPT
        !.version = IF ~reset THEN live.version ELSE IF m.version = 0 THEN 1 ELSE FreshVersion,
        !.source = IF reset THEN "configured" ELSE m.source,
        !.owner = m.ride, !.config = m.config,
        !.state = state,
        !.request = IF state = "REROUTING" THEN live.request ELSE Nothing,
        !.aged = live.aged /\ state = "REROUTING",
        !.waits = live.waits /\ ~Settles(reset, state),
        !.departure = IF reset THEN NoDeparture ELSE IF m.reuse THEN Preview("departure")
                      ELSE live.departure]

\* The path is loaded, the fix is matched to it, and the match is written; a new
\* path is asked for when the deviation is confirmed, or a departure is due.
\* A path the node points to is read before this write or with it alike.
Commit ==
    /\ matching # NoMatch /\ StillMatched
    /\ LET m == matching
           missing == m.source = "dynamic-reroute" /\ geometry[m.version].ride # m.ride
           reset == m.changed \/ missing
       IN \E state \in Adherence(IF reset THEN Nothing ELSE m.previous) :
             LET l == Matched(m, reset, state)
                 reroute == state = "OFF_ROUTE" /\ l.trip = "in_service"
                 task == [kind |-> IF reroute THEN "reroute" ELSE "departure",
                          ride |-> l.ride, version |-> l.version, config |-> m.config]
             IN /\ live' = l
                /\ paid' = (paid /\ ~Settles(reset, state))
                /\ queued' = IF reroute \/ DepartureDue(l) THEN [queued EXCEPT ![m.by] = task] ELSE queued
    /\ matching' = NoMatch
    /\ UNCHANGED <<call, known, config>>
    /\ ForgetPaths

Outdated ==
    /\ matching # NoMatch /\ ~StillMatched
    /\ matching' = NoMatch
    /\ UNCHANGED <<live, queued, call, known, config, geometry, paid>>

-----------------------------------------------------------------------------
\* A new path: requestReroute, refreshDepartureRoute.

Released(r) == call' = [call EXCEPT ![r] = NoCall]
Fetches(r, phase) ==
    call' = [call EXCEPT ![r] = [NoCall EXCEPT !.at = "provider", !.task = queued[r], !.phase = phase]]

SameContext(t) == live.ride = t.ride /\ live.version = t.version

\* Faulty: nothing is reserved before the answer.
ClaimsUnreserved(r) ==
    [live EXCEPT !.state = "REROUTING", !.request = r, !.aged = FALSE]

\* The delay is reserved with the claim.
ClaimsReroute(r) ==
    [live EXCEPT !.state = "REROUTING", !.request = r, !.aged = FALSE, !.waits = TRUE]

ClaimsDeparture(r) ==
    LET tries == IF live.departure.phase = Phase(live) THEN live.departure.tries ELSE 0 IN
    [live EXCEPT !.departure = [state |-> "pending", phase |-> Phase(live), by |-> r,
                                tries |-> tries + 1, waits |-> TRUE]]

CanClaim(r) ==
    LET t == queued[r] IN
    /\ SameContext(t) /\ known[r] = t.config /\ live.trip # "completed"
    /\ IF t.kind = "reroute"
       THEN live.state = "OFF_ROUTE" /\ live.trip = "in_service" /\ ~live.waits
       ELSE DepartureDue(live) /\ live.state \notin {"OFF_ROUTE", "REROUTING"}

\* The claim; the provider's circuit, or the node, may refuse it.
Claim(r) ==
    /\ queued[r] # NoRequest /\ call[r].at = "idle"
    /\ \/ /\ CanClaim(r)
          /\ live' = IF queued[r].kind = "reroute" THEN ClaimsReroute(r) ELSE ClaimsDeparture(r)
          /\ Fetches(r, Phase(live))
          /\ paid' = (paid \/ queued[r].kind = "reroute")
       \/ UNCHANGED <<live, call, paid>>
    /\ queued' = [queued EXCEPT ![r] = NoRequest]
    /\ UNCHANGED <<matching, known, config, geometry>>

\* The provider's answer is stored under a version of its own; or there is no
\* usable path, or it is not stored.
Answer(r) ==
    /\ call[r].at = "provider"
    /\ \/ LET v == FreshVersion IN
             /\ geometry' = [geometry EXCEPT ![v] =
                               [ride |-> call[r].task.ride, config |-> call[r].task.config, found |-> FALSE]]
             /\ call' = [call EXCEPT ![r].at = "publish", ![r].version = v]
       \/ /\ call' = [call EXCEPT ![r].at = "release"]
          /\ UNCHANGED geometry
    /\ UNCHANGED <<live, matching, queued, known, config, paid>>

\* rerouteContextIsCurrent, or the departure's own claim.
RequestCurrent(r) ==
    LET t == call[r].task IN
    /\ SameContext(t)
    /\ IF t.kind = "reroute"
       THEN live.trip = "in_service" /\ live.state = "REROUTING" /\ live.request = r
       ELSE /\ live.departure.by = r /\ live.departure.phase = call[r].phase /\ Phase(live) = call[r].phase
            /\ live.trip # "completed" /\ live.state \notin {"OFF_ROUTE", "REROUTING"}

\* Faulty: a path is shown whenever it was stored.
AnyAge(r) == TRUE

\* geometryPublicationIsFresh.
PublicationFresh(r) == ~call[r].late

Shown(r) ==
    [live EXCEPT !.version = call[r].version, !.source = "dynamic-reroute", !.state = "ON_NEW_ROUTE",
                 !.request = Nothing, !.aged = FALSE, !.waits = FALSE,
                 !.departure = IF call[r].task.kind = "departure"
                               THEN Preview(call[r].phase) ELSE live.departure]

\* The node points to it; a change of stop meanwhile, or a lost answer of the
\* transaction, releases the request.
PublishPath(r) ==
    /\ call[r].at = "publish"
    /\ \/ /\ RequestCurrent(r) /\ PublicationFresh(r) /\ known[r] = call[r].task.config
          /\ live' = Shown(r) /\ paid' = FALSE
          /\ Released(r)
       \/ /\ call' = [call EXCEPT ![r].at = "release", ![r].version = 0]
          /\ UNCHANGED <<live, paid>>
    /\ UNCHANGED <<matching, queued, known, config>>
    /\ ForgetPaths

\* Only the claim of this request; this write may fail, or the replica stop.
Release(r) ==
    /\ call[r].at = "release"
    /\ LET t == call[r].task IN
       live' \in {live} \union
          (IF ~SameContext(t) THEN {}
           ELSE IF t.kind = "departure"
           THEN IF live.departure.by # r THEN {}
                ELSE {[live EXCEPT !.departure.state = "failed", !.departure.by = Nothing, !.departure.waits = TRUE]}
           ELSE IF ~RequestCurrent(r) THEN {}
                ELSE {[live EXCEPT !.state = "OFF_ROUTE", !.request = Nothing, !.aged = FALSE, !.waits = TRUE]})
    /\ Released(r)
    /\ UNCHANGED <<matching, queued, known, config, geometry, paid>>

-----------------------------------------------------------------------------
\* Time, rides, edits and the other writers.

\* The claim outlives its request; a delay passes.
Elapse ==
    /\ \/ live.state = "REROUTING" /\ ~live.aged /\ live' = [live EXCEPT !.aged = TRUE] /\ UNCHANGED paid
       \/ (live.waits \/ paid) /\ live' = [live EXCEPT !.waits = FALSE] /\ paid' = FALSE
       \/ live.departure.waits /\ live' = [live EXCEPT !.departure.waits = FALSE] /\ UNCHANGED paid
    /\ UNCHANGED <<matching, queued, call, known, config, geometry>>

\* Lifecycle writes keep the context of a ride; a new ride has none.
Ride ==
    /\ \/ live.trip = "pre_departure" /\ live' = [live EXCEPT !.trip = "in_service"] /\ UNCHANGED paid
       \/ live.trip = "in_service" /\ live' = [live EXCEPT !.trip = "completed"] /\ UNCHANGED paid
       \/ live.ride < MaxRides /\ live' = NewLive(live.ride + 1) /\ paid' = FALSE
    /\ UNCHANGED <<matching, queued, call, known, config>>
    /\ ForgetPaths

\* An edit of the route, and its arrival at each replica (RouteCache).
Edit ==
    /\ config <= MaxEdits
    /\ config' = config + 1
    /\ UNCHANGED <<live, matching, queued, call, known, geometry, paid>>
Learn(r) ==
    /\ known[r] # config
    /\ known' = [known EXCEPT ![r] = config]
    /\ UNCHANGED <<live, matching, queued, call, config, geometry, paid>>

\* runRtdbRetentionSweep: months pass, a version the node does not name is
\* found, then removed. Its publisher, if any, is late by then.
Inspect(v) ==
    /\ geometry[v] # NoPath /\ ~geometry[v].found /\ v # live.version
    /\ geometry' = [geometry EXCEPT ![v].found = TRUE]
    /\ call' = [r \in Replicas |-> [call[r] EXCEPT !.late = call[r].late \/ call[r].version = v]]
    /\ UNCHANGED <<live, matching, queued, known, config, paid>>
Collect(v) ==
    /\ geometry[v].found
    /\ geometry' = [geometry EXCEPT ![v] = NoPath]
    /\ UNCHANGED <<live, matching, queued, call, known, config, paid>>

-----------------------------------------------------------------------------
CallStep(r) == Claim(r) \/ Answer(r) \/ PublishPath(r) \/ Release(r)

RouteNext ==
    \/ Commit \/ Outdated
    \/ \E r \in Replicas : Fix(r) \/ CallStep(r) \/ Learn(r)
    \/ Elapse \/ Ride \/ Edit
    \/ \E v \in Versions : Inspect(v) \/ Collect(v)

RouteSpec == RouteInit /\ [][RouteNext]_routeVars

-----------------------------------------------------------------------------
\* Properties.

\* A node that points to a computed path points to one that exists, was
\* computed for its ride and from the route its context names, whichever
\* replica's answer came late and whatever the sweep collected ("an aged
\* candidate can never become a new pointer after this read", rtdbRetention.ts:110).
ShownPathIsRides ==
    live.source = "dynamic-reroute" =>
        /\ geometry[live.version].ride = live.ride
        /\ geometry[live.version].config = live.config
        /\ live.owner = live.ride

\* Two requests for one context are at least the delay of the first apart,
\* whatever was lost or restarted, unless the bus was back on its path ("reserve
\* the delay before billable work so a lost failure write or process restart
\* cannot restore five-second provider retries", telemetryRouteService.ts:980).
DelayIsKept ==
    [][live'.request # Nothing /\ live.request # live'.request => ~paid]_routeVars

\* A claim whose request is lost does not hold the ride for ever
\* (REROUTE_RETRY_POLICY.md:77, telemetryRouteService.ts:287).
ClaimEnds ==
    live.state = "REROUTING" ~> live.state # "REROUTING" \/ live.trip = "completed"
=============================================================================
