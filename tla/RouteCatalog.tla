------------------------------- MODULE RouteCatalog --------------------------------
(* Saving and deleting a route: routes/polyline.ts with lib/routeSaveContract. *)
(* A save claims its operation, computes road geometry outside any             *)
(* transaction, and commits the route with the operation's result. Another     *)
(* request with the same operation may claim it once the lease is over. Rides  *)
(* pin the route: the bus lock with a session first, active_rides later.       *)
EXTENDS Integers

CONSTANTS
    Requests,       \* save requests under way
    Saves,          \* saveIds
    Shapes,         \* what the stops of a payload are
    MaxVersion,     \* bound: configVersion
    MaxClaims       \* bound: claims of one operation

\* A route has stops.
ASSUME ShapeAssumption == Shapes # {}

VARIABLES
    route,       \* routes/{id}
    save,        \* _route_save_operations
    attempt,     \* each save request
    pin,         \* the ride on the route
    bound        \* a bus or a device is assigned to the route

catalogVars == <<route, save, attempt, pin, bound>>

NoRoute == [config |-> 0, geometry |-> 0, shape |-> "none"]
NoSave == [status |-> "none", payload |-> <<>>, owner |-> 0, claims |-> 0, over |-> FALSE, unknown |-> FALSE]

\* seen: the route the claim read, whose geometry may be used again.
NoAttempt == [at |-> "idle", id |-> "none", payload |-> <<>>, owner |-> 0, seen |-> NoRoute]

SavePayloads == {"create", "edit"} \X (0..MaxVersion) \X Shapes
Mode(p) == p[1]
Expects(p) == p[2]
Shape(p) == p[3]

\* A route is there already, or is yet to be created.
CatalogInit ==
    /\ route \in {NoRoute, [config |-> 1, geometry |-> 1, shape |-> CHOOSE s \in Shapes : TRUE]}
    /\ save = [i \in Saves |-> NoSave]
    /\ attempt = [r \in Requests |-> NoAttempt]
    /\ pin = "none"
    /\ bound = FALSE

Exists == route # NoRoute

-----------------------------------------------------------------------------
\* PUT /routes/:id.

\* A client uses an operation for one payload, and sends it again after a
\* failure; the payload of another is refused by its hash.
Send(r, i) ==
    /\ attempt[r] = NoAttempt
    /\ \E p \in SavePayloads :
          /\ Mode(p) = "create" <=> Expects(p) = 0
          /\ Expects(p) \in {0, route.config} /\ Expects(p) < MaxVersion
          /\ save[i] # NoSave => p = save[i].payload
          /\ attempt' = [attempt EXCEPT ![r] = [NoAttempt EXCEPT !.at = "claiming", !.id = i, !.payload = p]]
    /\ UNCHANGED <<route, save, pin, bound>>

\* decideRouteSaveOperation.
Claimable(op) ==
    \/ op = NoSave
    \/ op.status = "failed" /\ op.unknown
    \/ op.status = "processing" /\ op.over

\* An edit that names the version it read, of a route no ride owns.
Current(p) ==
    /\ Mode(p) = "create" <=> ~Exists
    /\ route.config = Expects(p)
Unridden(p) == Mode(p) = "edit" => pin = "none"

End(r) == attempt' = [attempt EXCEPT ![r] = NoAttempt]

\* The claim's transaction. What it refuses has no record; a claim that is not
\* acknowledged keeps its lease.
ClaimSave(r) ==
    /\ attempt[r].at = "claiming"
    /\ LET i == attempt[r].id
           p == attempt[r].payload
       IN IF /\ Claimable(save[i]) /\ Current(p) /\ Unridden(p)
             /\ save[i].claims < MaxClaims
             /\ save[i] = NoSave \/ save[i].payload = p
          THEN LET owner == save[i].claims + 1 IN
               /\ save' = [save EXCEPT ![i] = [status |-> "processing", payload |-> p, owner |-> owner,
                                               claims |-> owner, over |-> FALSE, unknown |-> FALSE]]
               /\ \/ attempt' = [attempt EXCEPT ![r].at = "computing", ![r].owner = owner, ![r].seen = route]
                  \/ End(r)
          ELSE End(r) /\ UNCHANGED save
    /\ UNCHANGED <<route, pin, bound>>

\* Both directions from the provider, unless the shape is the stored one.
Compute(r) ==
    /\ attempt[r].at = "computing"
    /\ \/ attempt' = [attempt EXCEPT ![r].at = "committing"]
       \/ /\ attempt[r].seen.shape # Shape(attempt[r].payload)
          /\ attempt' = [attempt EXCEPT ![r].at = "failing"]
    /\ UNCHANGED <<route, save, pin, bound>>

\* Faulty: the operation is not read again before the commit.
StillClaimed(r) == TRUE

\* The lease is still this request's.
Mine(r) ==
    LET op == save[attempt[r].id] IN
    op.status = "processing" /\ op.owner = attempt[r].owner

\* Faulty: rides are looked at before the geometry is computed only.
UnriddenBefore(p) == TRUE
StillUnridden(p) == Unridden(p)

Saved(r) ==
    LET p == attempt[r].payload
        seen == attempt[r].seen
    IN [config |-> Expects(p) + 1, shape |-> Shape(p),
        geometry |-> IF seen.shape = Shape(p) THEN seen.geometry ELSE seen.geometry + 1]

\* The commit: everything is read again. A refusal other than a lost lease is
\* recorded; an answer that is lost, committed or not, is an unknown outcome.
Commit(r) ==
    /\ attempt[r].at = "committing"
    /\ LET i == attempt[r].id
           p == attempt[r].payload
       IN \/ /\ Mine(r) /\ Current(p) /\ StillUnridden(p)
             /\ route' = Saved(r)
             /\ save' = [save EXCEPT ![i].status = "succeeded"]
             /\ End(r)
          \/ /\ ~(Mine(r) /\ Current(p) /\ StillUnridden(p))
             /\ attempt' = [attempt EXCEPT ![r].at = "failing"]
             /\ UNCHANGED <<route, save>>
          \/ /\ attempt' = [attempt EXCEPT ![r].at = "unknown"]
             /\ UNCHANGED <<route, save>>
    /\ UNCHANGED <<pin, bound>>

\* recordFailure, only while the lease is this request's; it may fail too.
RecordFailed(r) ==
    /\ attempt[r].at \in {"failing", "unknown"}
    /\ \/ /\ Mine(r)
          /\ save' = [save EXCEPT ![attempt[r].id].status = "failed",
                                  ![attempt[r].id].unknown = attempt[r].at = "unknown"]
       \/ UNCHANGED save
    /\ End(r)
    /\ UNCHANGED <<route, pin, bound>>

\* The process is gone.
Lose(r) ==
    /\ attempt[r] # NoAttempt
    /\ End(r)
    /\ UNCHANGED <<route, save, pin, bound>>

LeaseEnds(i) ==
    /\ save[i].status = "processing" /\ ~save[i].over
    /\ save' = [save EXCEPT ![i].over = TRUE]
    /\ UNCHANGED <<route, attempt, pin, bound>>

-----------------------------------------------------------------------------
\* DELETE /routes/:id, and the routes' users.

DeleteRoute ==
    /\ Exists /\ ~bound /\ pin # "riding"
    /\ route' = NoRoute
    /\ UNCHANGED <<save, attempt, pin, bound>>

Bind ==
    /\ Exists /\ ~bound
    /\ bound' = TRUE
    /\ UNCHANGED <<route, save, attempt, pin>>

\* PUT /buses looks for rides before it writes: one may have begun since.
Unbind ==
    /\ bound
    /\ bound' = FALSE
    /\ UNCHANGED <<route, save, attempt, pin>>

\* The transaction that locks the bus for a session reads the route again.
PinRoute ==
    /\ pin = "none" /\ Exists
    /\ pin' = "locked"
    /\ UNCHANGED <<route, save, attempt, bound>>

\* active_rides is written after it, whatever became of the route; or the start
\* fails and its lock is freed.
Ride ==
    /\ pin = "locked"
    /\ pin' \in {"none", "riding"}
    /\ UNCHANGED <<route, save, attempt, bound>>

EndRide ==
    /\ pin = "riding"
    /\ pin' = "none"
    /\ UNCHANGED <<route, save, attempt, bound>>

CatalogNext ==
    \/ \E r \in Requests, i \in Saves : Send(r, i)
    \/ \E r \in Requests : ClaimSave(r) \/ Compute(r) \/ Commit(r) \/ RecordFailed(r) \/ Lose(r)
    \/ \E i \in Saves : LeaseEnds(i)
    \/ DeleteRoute \/ Bind \/ Unbind \/ PinRoute \/ Ride \/ EndRide

CatalogSpec == CatalogInit /\ [][CatalogNext]_catalogVars

-----------------------------------------------------------------------------
\* Properties.

\* Every write of the route is the success of an operation that had none: a
\* retry, a second claim or a late commit never applies a save again, not even
\* to a route deleted in between (routeSaveContract.ts:52-54).
SavedOnce ==
    [][route' # route /\ route' # NoRoute =>
          \E i \in Saves : save[i].status # "succeeded" /\ save'[i].status = "succeeded"]_catalogVars

\* While a ride owns the route, from the lock of its bus on, no save that was
\* computed before edits it, and none deletes it while it drives ("the route was
\* not changed", polyline.ts:743).
RiddenRouteStays ==
    [][route # NoRoute /\ route' # route =>
          IF route' = NoRoute THEN pin # "riding" ELSE pin = "none"]_catalogVars

\* Both: however saves are retried, overtaken and cut off, a version is made by
\* one of them and never under a ride (polyline.ts:708, 738).
RoutesAreKept == SavedOnce /\ RiddenRouteStays
=============================================================================
