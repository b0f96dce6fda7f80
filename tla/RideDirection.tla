------------------------------- MODULE RideDirection -------------------------------
(* The direction of a ride: services/telemetryRouteService.ts resolves it from *)
(* telemetry on the live node and then confirms it in the session, while       *)
(* services/rideSessionStart.ts gives it to a session and to the node it       *)
(* claims, and services/tripStateEngine.ts lets the ride depart. Starts carry   *)
(* an idempotency key here (RideStart is about those without one).             *)
EXTENDS Integers

CONSTANTS
    Resolvers,    \* replicas that match fixes
    Starts,       \* requests that start or resume the shift
    MaxShifts     \* bound: sessions of the bus

ASSUME ShiftAssumption == MaxShifts \in Nat

VARIABLES
    node,         \* activeBuses/{node}: session, trip state, direction, its confirmation, matched path
    sessions,     \* ride_sessions: number -> state and direction
    lockedBy,       \* the session that holds the bus lock, 0 for none
    resolver,     \* processTelemetryRoute of each replica
    starter,      \* startRideSession of each request
    departing     \* the ride and direction that the engine's checkpoint saw

directionVars == <<node, sessions, lockedBy, resolver, starter, departing>>

Directions == {"forward", "reverse"}
Unresolved == "unresolved"
Inferred == Directions \union {Unresolved}
Shifts == 1 .. MaxShifts

\* synced is FALSE while directionFirestoreSynced is.
DeviceOnly == [ride |-> 0, trip |-> "pre_departure", direction |-> Unresolved, synced |-> TRUE, path |-> Unresolved]
NoSession == [state |-> "none", direction |-> Unresolved, departed |-> FALSE]
AtRest == [at |-> "idle", ride |-> 0, direction |-> Unresolved, current |-> FALSE]
NoStart == [at |-> "idle", ride |-> 0, direction |-> Unresolved, created |-> FALSE]
NoCheckpoint == [ride |-> 0, direction |-> Unresolved]

DirectionInit ==
    /\ node = DeviceOnly
    /\ sessions = [n \in Shifts |-> NoSession]
    /\ lockedBy = 0
    /\ resolver = [m \in Resolvers |-> AtRest]
    /\ starter = [s \in Starts |-> NoStart]
    /\ departing = NoCheckpoint

-----------------------------------------------------------------------------
\* Telemetry resolves the direction.

\* A fix replaces the one the resolvers work on.
NewFix ==
    /\ resolver' = [m \in Resolvers |-> [resolver[m] EXCEPT !.current = FALSE]]
    /\ UNCHANGED <<node, sessions, lockedBy, starter, departing>>

\* directionResolutionIsEligible: an active ride keeps its direction.
Eligible == node.ride = 0 \/ (node.trip = "pre_departure" /\ node.direction = Unresolved)

\* resolvePendingDirection: d is what the fix tells.
Provisional(d) ==
    IF ~Eligible \/ d = node.direction THEN node
    ELSE IF d = Unresolved THEN [node EXCEPT !.direction = Unresolved, !.path = Unresolved]
    ELSE [node EXCEPT !.direction = d, !.synced = node.ride = 0]

\* directionProjectionNeedsSync decides what follows.
Resolve(m) ==
    /\ resolver[m].at = "idle" /\ node.trip # "completed"
    /\ \E d \in Inferred : node' = Provisional(d)
    /\ resolver' = [resolver EXCEPT ![m] =
         IF node'.direction = Unresolved THEN AtRest
         ELSE [at |-> IF node'.ride # 0 /\ ~node'.synced THEN "persist" ELSE "match",
               ride |-> node'.ride, direction |-> node'.direction, current |-> TRUE]]
    /\ UNCHANGED <<sessions, lockedBy, starter, departing>>

Rests(m) == resolver' = [resolver EXCEPT ![m] = AtRest]
Goes(m, place) == resolver' = [resolver EXCEPT ![m].at = place]

\* Faulty: the direction of the session is not looked at.
AcceptsAny(r) == sessions[r.ride].state = "open" /\ lockedBy = r.ride

Accepts(r) ==
    /\ sessions[r.ride].state = "open" /\ lockedBy = r.ride
    /\ sessions[r.ride].direction \in {Unresolved, r.direction}

\* persistResolvedSessionDirection: written, with or without the answer; or
\* refused, also because the route changed; or failed.
Persist(m) ==
    LET r == resolver[m] IN
    /\ r.at = "persist"
    /\ \/ /\ Accepts(r)
          /\ sessions' = [sessions EXCEPT ![r.ride].direction = r.direction]
          /\ Goes(m, "mark") \/ Rests(m)
       \/ Goes(m, "reset") /\ UNCHANGED sessions
       \/ Rests(m) /\ UNCHANGED sessions
    /\ UNCHANGED <<node, lockedBy, starter, departing>>

\* Faulty: another direction may have been resolved meanwhile.
SameSession(r) == node.ride = r.ride /\ ~node.synced

StillProvisional(r) == node.ride = r.ride /\ node.direction = r.direction /\ ~node.synced

\* markDirectionProjectionSynchronized; the route may have changed.
Mark(m) ==
    /\ resolver[m].at = "mark"
    /\ node' \in {node} \union
                 (IF StillProvisional(resolver[m]) THEN {[node EXCEPT !.synced = TRUE]} ELSE {})
    /\ Goes(m, "match")
    /\ UNCHANGED <<sessions, lockedBy, starter, departing>>

Resets(r) == r.current /\ StillProvisional(r) /\ node.trip = "pre_departure"

\* resetRefusedDirection.
Reset(m) ==
    /\ resolver[m].at = "reset"
    /\ node' = IF Resets(resolver[m])
               THEN [node EXCEPT !.direction = Unresolved, !.path = Unresolved] ELSE node
    /\ Rests(m)
    /\ UNCHANGED <<sessions, lockedBy, starter, departing>>

\* The fix is matched in that direction: telemetryRouteContextIsCurrent.
MatchFix(m) ==
    LET r == resolver[m] IN
    /\ r.at = "match"
    /\ node' = IF r.current /\ node.ride = r.ride /\ node.direction = r.direction
               THEN [node EXCEPT !.path = r.direction] ELSE node
    /\ Rests(m)
    /\ UNCHANGED <<sessions, lockedBy, starter, departing>>

-----------------------------------------------------------------------------
\* A shift starts.

Ends(s) == starter' = [starter EXCEPT ![s] = NoStart]
Open(n) == sessions[n].state = "open"
NextShift == CHOOSE n \in Shifts : sessions[n] = NoSession

\* A direction the session has is kept.
Kept(n, d) == IF sessions[n].direction = Unresolved THEN d ELSE sessions[n].direction

\* The transaction that claims the lock, or finds the session that holds it;
\* d is what the last fix tells. A contradiction is refused.
ClaimLock(s) ==
    /\ starter[s].at = "idle"
    /\ \E d \in Inferred :
          \/ /\ lockedBy = 0 /\ \E n \in Shifts : sessions[n] = NoSession
             /\ sessions' = [sessions EXCEPT ![NextShift] = [NoSession EXCEPT !.state = "open", !.direction = d]]
             /\ lockedBy' = NextShift
             /\ starter' = [starter EXCEPT ![s] =
                              [at |-> "claim", ride |-> NextShift, direction |-> d, created |-> TRUE]]
          \/ /\ lockedBy # 0
             /\ d = Unresolved \/ sessions[lockedBy].direction \in {Unresolved, d}
             /\ sessions' = [sessions EXCEPT ![lockedBy].direction = Kept(lockedBy, d)]
             /\ starter' = [starter EXCEPT ![s] =
                              [at |-> "claim", ride |-> lockedBy, direction |-> Kept(lockedBy, d), created |-> FALSE]]
             /\ UNCHANGED lockedBy
    /\ UNCHANGED <<node, resolver, departing>>

\* The transaction on the live node; what the last direction left of
\* directionFirestoreSynced stays. A ride that departed goes on, a new one with
\* a direction departs at once unless it is automatic or paused.
ClaimNode(s) ==
    LET c == starter[s]
        gone == {"in_service"}
        begins == IF sessions[c.ride].departed THEN gone
                  ELSE IF c.direction = Unresolved THEN {"pre_departure"} ELSE gone \union {"pre_departure"}
    IN
    /\ c.at = "claim"
    /\ \/ /\ node.ride = 0 \/ (node.trip = "completed" /\ node.ride # c.ride)
          /\ \E trip \in begins :
                node' = [node EXCEPT !.ride = c.ride, !.trip = trip, !.direction = c.direction, !.path = Unresolved]
          /\ starter' = [starter EXCEPT ![s].at = "project"]
          /\ UNCHANGED <<sessions, lockedBy>>
       \/ /\ node.ride # 0 /\ (node.trip # "completed" \/ node.ride = c.ride)
          /\ Ends(s)
          /\ IF c.created /\ node.ride # c.ride
             THEN /\ sessions' = [sessions EXCEPT ![c.ride].state = "failed"]
                  /\ lockedBy' = IF lockedBy = c.ride THEN 0 ELSE lockedBy
             ELSE UNCHANGED <<sessions, lockedBy>>
          /\ UNCHANGED node
       \/ Ends(s) /\ UNCHANGED <<node, sessions, lockedBy>>
    /\ UNCHANGED <<resolver, departing>>

\* Faulty: the batch writes the direction of the claim.
Overwritten(c) == c.direction

\* commitCreationProjections: "protect newer telemetry projections".
Projected(c) == Kept(c.ride, c.direction)

Project(s) ==
    LET c == starter[s] IN
    /\ c.at = "project"
    /\ sessions' \in {sessions} \union
         (IF Open(c.ride) /\ node.ride = c.ride /\ node.trip # "completed"
          THEN {[sessions EXCEPT ![c.ride].direction = Projected(c)]} ELSE {})
    /\ Ends(s)
    /\ UNCHANGED <<node, lockedBy, resolver, departing>>

-----------------------------------------------------------------------------
\* The engine.

\* persistActiveRideLifecycle of a departure, then the write to the node.
Checkpointed ==
    /\ node.ride # 0 /\ node.trip = "pre_departure" /\ node.direction # Unresolved
    /\ lockedBy = node.ride
    /\ departing' = [ride |-> node.ride, direction |-> node.direction]
    /\ sessions' = [sessions EXCEPT ![node.ride].departed = TRUE]
    /\ UNCHANGED <<node, lockedBy, resolver, starter>>
Depart ==
    /\ departing # NoCheckpoint
    /\ node' = IF node.ride = departing.ride /\ node.direction = departing.direction /\ node.trip # "completed"
               THEN [node EXCEPT !.trip = "in_service"] ELSE node
    /\ departing' = NoCheckpoint
    /\ UNCHANGED <<sessions, lockedBy, resolver, starter>>

\* The ride ends (RideWorker), and its node is cleared or a device writes a new one.
CompleteRide ==
    /\ node.ride # 0 /\ node.trip = "in_service" /\ lockedBy = node.ride
    /\ node' = [node EXCEPT !.trip = "completed"]
    /\ sessions' = [sessions EXCEPT ![node.ride].state = "ended"]
    /\ lockedBy' = 0
    /\ UNCHANGED <<resolver, starter, departing>>
ClearNode ==
    /\ node.trip = "completed" \/ node.ride # 0
    /\ node' = DeviceOnly
    /\ UNCHANGED <<sessions, lockedBy, resolver, starter, departing>>

DirectionNext ==
    \/ NewFix
    \/ \E m \in Resolvers : Resolve(m) \/ Persist(m) \/ Mark(m) \/ Reset(m) \/ MatchFix(m)
    \/ \E s \in Starts : ClaimLock(s) \/ ClaimNode(s) \/ Project(s)
    \/ Checkpointed \/ Depart \/ CompleteRide \/ ClearNode

DirectionSpec == DirectionInit /\ [][DirectionNext]_directionVars

-----------------------------------------------------------------------------
\* Properties.

\* Once its direction counts as confirmed, the live ride runs in the direction
\* its session has, and no ride is matched to the path of the other one, with
\* starts, replicas and refusals in any order ("undo only our still-provisional
\* projection after a definitive durable refusal", telemetryRouteService.ts:485;
\* "protect newer telemetry projections", rideSessionStart.ts:45).
DirectionIsConfirmed ==
    node.ride # 0 =>
        /\ node.direction # Unresolved /\ node.synced => sessions[node.ride].direction = node.direction
        /\ node.path # Unresolved => node.path = node.direction
=============================================================================
