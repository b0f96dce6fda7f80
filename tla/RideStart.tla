------------------------------ MODULE RideStart ------------------------------
(* Starting or resuming a ride (startAssignedService in rideSessionStart.ts)   *)
(* and automatic admission (admit in automaticServiceAdmission.ts), one action *)
(* per read or transaction. A request can end between any two of them: GiveUp  *)
(* is a refusal, an error, a lost reply or a crash, and the same request with  *)
(* the same key may be sent again. The bus has one operator and one device.    *)
(* The records a ride session shares with the bus it holds, for one bus on one *)
(* route (docs/api/RIDE_SESSION_CONTRACT.md, Section 2):                       *)
(*   Firestore  status, prev   ride_sessions/{sessionId}                       *)
(*              lock           _active_bus_locks/{busId}                       *)
(*              ride           active_rides/{busId}_{routeId}                  *)
(*              fleet          bus_locations/{busId}: pause, epoch, journey    *)
(*              binding        _ride_session_creation_keys                     *)
(*   RTDB       node           activeBuses/{busId}_{routeId}                   *)
(* A Firestore transaction is one step over the first five, an RTDB            *)
(* transaction one step over the last; nothing is atomic over both stores.     *)
(* Directions, positions, delays and manifests are left out: every start finds *)
(* the bus at an endpoint, so its direction is known.                          *)
EXTENDS Integers, FiniteSets

CONSTANTS
    MaxSessions,   \* session identifiers are 1 .. MaxSessions (bound)
    LastStop,      \* index of the route's last stop
    MaxAge,        \* how many 12-hour silences age a record, 0 .. 2 (bound)
    Keys           \* idempotency keys of start requests

ASSUME StoreAssumption ==
    MaxSessions \in Nat \ {0} /\ LastStop \in Nat \ {0} /\ MaxAge \in 0 .. 2

VARIABLES
    status,     \* session -> its status, "none" before it is created
    prev,       \* session -> the completed ride it is the automatic return of
    quiet,      \* session -> age of its last write
    lock,       \* the session that owns the bus, or None
    ride,       \* durable progress
    fleet,      \* automaticServicePaused, automaticServiceEpoch, terminalJourney
    binding,    \* key -> the session it created or resumed, or None
    node,       \* the live record
    issued      \* highest session identifier handed out

storeVars == <<status, prev, quiet, lock, ride, fleet, binding, node, issued>>
firestoreVars == <<status, prev, quiet, lock, ride, fleet, binding, issued>>

None == 0
Sessions == 1 .. MaxSessions
Maybe == Sessions \cup {None}
Ages == 0 .. MaxAge

Open(s) == status[s] \in {"pending", "armed", "active"}
Terminal(s) == status[s] \in {"completed", "interrupted", "failed"}

NoNode == [exists |-> FALSE, session |-> None, trip |-> "none", on |-> FALSE, idx |-> 0,
           claim |-> None, paused |-> FALSE, setup |-> FALSE, age |-> 0]

\* A device that reports without a ride: presence, no lifecycle fields.
Presence == [NoNode EXCEPT !.exists = TRUE]

NoRide == [session |-> None, trip |-> "pre", idx |-> 0, age |-> 0]
NoJourney == [session |-> None, consumedBy |-> None]

Running(n) == n.on /\ n.session # None /\ n.trip \in {"pre", "in"}

\* The ride shown live for session s before departure or in service.
LiveFor(n, s) == Running(n) /\ n.session = s

Nodes == [exists : BOOLEAN, session : Maybe, trip : {"none", "pre", "in", "done"}, on : BOOLEAN,
          idx : 0 .. LastStop, claim : Maybe, paused : BOOLEAN, setup : BOOLEAN, age : Ages]

\* What a reader of the live record keeps of it.
Glance(n) == [session |-> n.session, trip |-> n.trip, idx |-> n.idx, age |-> n.age,
              running |-> Running(n), paused |-> n.paused]
Glances == [session : Maybe, trip : {"none", "pre", "in", "done"}, idx : 0 .. LastStop, age : Ages,
            running : BOOLEAN, paused : BOOLEAN]
Unseen == Glance(NoNode)

StoreTypeOK ==
    /\ status \in [Sessions -> {"none", "pending", "armed", "active", "completed", "interrupted", "failed"}]
    /\ prev \in [Sessions -> Maybe]
    /\ quiet \in [Sessions -> Ages]
    /\ lock \in Maybe
    /\ ride \in [session : Maybe, trip : {"pre", "in"}, idx : 0 .. LastStop, age : Ages]
    /\ fleet \in [paused : BOOLEAN, epoch : Nat, journey : [session : Maybe, consumedBy : Maybe]]
    /\ binding \in [Keys -> Maybe]
    /\ node \in Nodes
    /\ issued \in 0 .. MaxSessions

\* A bus whose device reports and that carried no ride yet.
StoreInit ==
    /\ status = [s \in Sessions |-> "none"]
    /\ prev = [s \in Sessions |-> None]
    /\ quiet = [s \in Sessions |-> 0]
    /\ lock = None
    /\ ride = NoRide
    /\ fleet = [paused |-> FALSE, epoch |-> 0, journey |-> NoJourney]
    /\ binding = [k \in Keys |-> None]
    /\ node = Presence
    /\ issued = 0

\* Writing a session sets its updatedAt: the write is its latest activity.
SetStatus(s, st) ==
    /\ status' = [status EXCEPT ![s] = st]
    /\ quiet' = [quiet EXCEPT ![s] = 0]

\* Faulty: the ended ride's progress stays behind.
LeaveRide(s) == ride' = ride

DropRideOf(s) == ride' = IF ride.session = s THEN NoRide ELSE ride

\* Faulty: the ended ride keeps the bus.
LeaveLock(s) == lock' = lock

DropLockOf(s) == lock' = IF lock = s THEN None ELSE lock

\* An RTDB transaction of the device: presence and a fresh fix; lifecycle fields
\* are kept as they are.
Telemetry ==
    /\ node' = IF node.exists THEN [node EXCEPT !.age = 0] ELSE Presence
    /\ node' # node
    /\ UNCHANGED firestoreVars

\* The stale sweep removes a silent node that shows no running ride. Its silence
\* (BUS_STALE_MS, 5 minutes) is shorter than the ages tell apart.
SweepNode ==
    /\ node.exists /\ ~Running(node)
    /\ node' = NoNode
    /\ UNCHANGED firestoreVars

-----------------------------------------------------------------------------
\* Starting a ride.

CONSTANTS
    Requests,      \* clients that start a ride
    Automatic,     \* those that are devices' automatic admission
    Keyless,       \* those that use POST /api/shifts/start, without a key
    MaxStarts      \* attempts of all requests together (bound)

ASSUME StartAssumption ==
    /\ Automatic \subseteq Requests /\ Keyless \subseteq Requests
    /\ Automatic \cap Keyless = {}
    /\ MaxStarts \in Nat
    /\ Keys = Requests \cup (0 .. MaxStarts)

VARIABLES
    req,        \* request -> where it is and what it has read
    starts      \* attempts so far

startVars == <<req, starts>>

Idle == [pc |-> "idle", epoch |-> 0, pinned |-> None, sid |-> None, seen |-> Unseen,
         made |-> FALSE, renews |-> FALSE, trip |-> "pre", idx |-> 0, todo |-> {}]

Requesting == [pc : {"idle", "rearm", "bind", "read", "resume", "claim", "recover", "live", "lose",
                     "check", "commit", "batch", "sets", "setup"},
               epoch : 0 .. MaxStarts, pinned : Maybe, sid : Maybe, seen : Glances, made : BOOLEAN, renews : BOOLEAN,
               trip : {"pre", "in"}, idx : 0 .. LastStop, todo : SUBSET {"session", "ride"}]

StartTypeOK == req \in [Requests -> Requesting] /\ starts \in 0 .. MaxStarts

StartInit == req = [r \in Requests |-> Idle] /\ starts = 0

At(r, pc) == req[r].pc = pc

\* The key of a request: an automatic start is keyed by the bus's epoch.
KeyOf(r) == IF r \in Automatic THEN req[r].epoch ELSE r

\* What the request's key is bound to; a request without a key has no binding.
Bound(r) == IF r \in Keyless THEN None ELSE binding[KeyOf(r)]

\* Faulty: the key is not bound.
BindNothing(r, s) == binding' = binding

Bind(r, s) ==
    binding' = IF r \in Keyless THEN binding ELSE [binding EXCEPT ![KeyOf(r)] = s]

\* Faulty: the pause is left to the read before.
AdmittedPaused(r) ==
    r \in Automatic => fleet.epoch = req[r].epoch /\ fleet.journey = NoJourney

\* verify: every transaction of an automatic start checks that the bus is still
\* the one admission saw.
Admitted(r) ==
    r \in Automatic => /\ ~fleet.paused
                       /\ fleet.epoch = req[r].epoch
                       /\ fleet.journey = NoJourney

\* A deliberate start resumes automatic service under a new epoch.
Resumed(r) ==
    IF r \in Automatic THEN fleet ELSE [fleet EXCEPT !.paused = FALSE, !.epoch = @ + 1]

-----------------------------------------------------------------------------
\* Admission reads the pause, the epoch and the last journey. A journey whose
\* return ended early is released first; any other journey awaits its return.
ReadAdmission(r) ==
    /\ At(r, "idle") /\ r \in Automatic /\ starts < MaxStarts /\ fleet.epoch <= MaxStarts
    /\ ~fleet.paused
    /\ \/ /\ fleet.journey = NoJourney
          /\ req' = [req EXCEPT ![r] = [Idle EXCEPT !.pc = "bind", !.epoch = fleet.epoch]]
       \/ /\ fleet.journey.consumedBy # None
          /\ status[fleet.journey.consumedBy] \in {"failed", "interrupted"}
          /\ req' = [req EXCEPT ![r] = [Idle EXCEPT !.pc = "rearm", !.epoch = fleet.epoch,
                                                    !.sid = fleet.journey.consumedBy]]
    /\ starts' = starts + 1
    /\ UNCHANGED storeVars

\* A compare-and-swap to the next epoch, which frees the key of the ended ride;
\* admit then begins again, which is the next ReadAdmission.
Rearm(r) ==
    /\ At(r, "rearm")
    /\ ~fleet.paused /\ fleet.epoch = req[r].epoch
    /\ req[r].sid # None => fleet.journey.consumedBy = req[r].sid
    /\ fleet' = [fleet EXCEPT !.epoch = @ + 1,
                              !.journey = IF req[r].sid = None THEN @ ELSE NoJourney]
    /\ req' = [req EXCEPT ![r] = Idle]
    /\ UNCHANGED <<status, prev, quiet, lock, ride, binding, node, issued, starts>>

\* A client's request begins here.
BeginRequest(r) ==
    /\ At(r, "idle") /\ r \notin Automatic /\ starts < MaxStarts
    /\ starts' = starts + 1
    /\ req' = [req EXCEPT ![r] = [Idle EXCEPT !.pc = "bind"]]
    /\ UNCHANGED storeVars

\* The key's binding and the session it is pinned to. A client is answered with
\* an ended session; an automatic start of a ride that ended early rearms.
ReadBinding(r) ==
    /\ At(r, "bind")
    /\ LET s == Bound(r)
       IN  \/ /\ s # None => Open(s)
              /\ req' = [req EXCEPT ![r] = [@ EXCEPT !.pc = "read", !.pinned = s]]
           \/ /\ s # None /\ r \in Automatic
              /\ status[s] \in {"interrupted", "failed"}
              /\ req' = [req EXCEPT ![r] = [@ EXCEPT !.pc = "rearm"]]
    /\ UNCHANGED <<storeVars, starts>>

\* The live record decides between resuming its ride and claiming the bus. A
\* claim needs a fresh fix.
ReadNode(r) ==
    /\ At(r, "read")
    /\ r \in Automatic => node.trip # "done" /\ ~node.paused
    /\ LET pinned == req[r].pinned
       IN  /\ pinned # None => /\ ~(node.session = pinned /\ node.trip = "done")
                               /\ Running(node) => node.session = pinned
           /\ \/ /\ Running(node)
                 /\ req' = [req EXCEPT ![r] = [@ EXCEPT !.pc = "resume", !.seen = Glance(node)]]
              \/ /\ ~Running(node) /\ node.exists /\ node.age = 0
                 /\ req' = [req EXCEPT ![r] = [@ EXCEPT !.pc = "claim", !.seen = Glance(node)]]
    /\ UNCHANGED <<storeVars, starts>>

\* Where the durable projections of a claimed ride are written: in one guarded
\* transaction for a keyed request; without a key in one batch for a claimed
\* record, and one set per document for a resumed one.
Project(r, unguarded) == IF r \in Keyless THEN unguarded ELSE "check"

\* The transaction that binds a resumed ride to the bus.
ClaimResume(r) ==
    /\ At(r, "resume")
    /\ Admitted(r)
    /\ LET seen == req[r].seen
           s == seen.session
       IN  /\ Bound(r) \in {None, s}
           /\ Open(s)
           /\ lock \in {None, s}
           /\ lock' = s
           /\ Bind(r, s)
           /\ req' = [req EXCEPT ![r] = [@ EXCEPT !.pc = Project(r, "sets"), !.sid = s,
                                         !.seen = Unseen, !.trip = seen.trip, !.idx = seen.idx, !.todo = {"session", "ride"}]]
    /\ UNCHANGED <<status, prev, quiet, ride, fleet, node, issued, starts>>

\* What both claims of the bus check first.
MayClaim(r) ==
    /\ At(r, "claim")
    /\ Admitted(r)
    /\ Bound(r) \in {None, lock}
    /\ req[r].pinned # None => lock = req[r].pinned

\* A fresh ride departs at once, unless automatic or after End ride early.
FirstTrip(r) == IF r \notin Automatic /\ ~req[r].seen.paused THEN "in" ELSE "pre"

\* The transaction that takes over the open session that holds the bus.
ClaimOwned(r) ==
    /\ MayClaim(r)
    /\ lock # None /\ Open(lock)
    /\ ~(r \notin Keyless /\ req[r].seen.trip = "done" /\ req[r].seen.session = lock)
    /\ Bind(r, lock)
    /\ fleet' = Resumed(r)
    /\ req' = [req EXCEPT ![r] = [@ EXCEPT !.pc = IF status[lock] = "pending" THEN "live" ELSE "recover",
                                           !.sid = lock, !.seen = Unseen, !.trip = FirstTrip(r)]]
    /\ UNCHANGED <<status, prev, quiet, lock, ride, node, issued, starts>>

\* Faulty: the bus counts as free because no ride was seen on it.
LooksFree(r) == ~req[r].seen.running

BusIsFree(r) == lock = None

\* The transaction that creates a session with the bus lock. It drops the last
\* journey: an earlier ride's return is no longer wanted.
ClaimFree(r) ==
    /\ MayClaim(r)
    /\ BusIsFree(r) /\ issued < MaxSessions
    /\ issued' = issued + 1
    /\ SetStatus(issued', "pending")
    /\ lock' = issued'
    /\ Bind(r, issued')
    /\ fleet' = [Resumed(r) EXCEPT !.journey = NoJourney]
    /\ req' = [req EXCEPT ![r] = [@ EXCEPT !.pc = "live", !.sid = issued', !.seen = Unseen,
                                           !.made = TRUE, !.trip = FirstTrip(r)]]
    /\ UNCHANGED <<prev, ride, node, starts>>

\* Progress of a ride taken over is read from its durable copy.
ReadRide(r) ==
    /\ At(r, "recover")
    /\ ride.session = req[r].sid
    /\ req' = [req EXCEPT ![r] = [@ EXCEPT !.pc = "live", !.trip = ride.trip, !.idx = ride.idx]]
    /\ UNCHANGED <<storeVars, starts>>

NodeIsFree(r) ==
    /\ ~Running(node)
    /\ r \in Automatic => node.trip # "done" /\ ~node.paused
    /\ r \notin Keyless => ~(node.session = req[r].sid /\ node.trip = "done")

\* The RTDB transaction that claims the live record.
ClaimNode(r) ==
    /\ At(r, "live")
    /\ NodeIsFree(r)
    /\ node' = [Presence EXCEPT !.session = req[r].sid, !.trip = req[r].trip, !.idx = req[r].idx,
                                !.on = TRUE, !.setup = r \in Automatic]
    /\ req' = [req EXCEPT ![r] = [@ EXCEPT !.pc = Project(r, "batch"), !.made = FALSE,
                                           !.renews = TRUE, !.todo = {"session", "ride"}]]
    /\ UNCHANGED <<firestoreVars, starts>>

\* It found another ride there. Only the request that created the session fails it.
LoseNode(r) ==
    /\ At(r, "live") /\ ~NodeIsFree(r)
    /\ req[r].made /\ node.session # req[r].sid
    /\ req' = [req EXCEPT ![r] = [@ EXCEPT !.pc = "lose"]]
    /\ UNCHANGED <<storeVars, starts>>

\* Faulty: the failed session keeps the bus.
FailHolding(r) ==
    /\ At(r, "lose")
    /\ SetStatus(req[r].sid, "failed")
    /\ req' = [req EXCEPT ![r] = Idle]
    /\ UNCHANGED <<prev, lock, ride, fleet, binding, node, issued, starts>>

FailStart(r) ==
    /\ At(r, "lose")
    /\ SetStatus(req[r].sid, "failed")
    /\ DropLockOf(req[r].sid)
    /\ req' = [req EXCEPT ![r] = Idle]
    /\ UNCHANGED <<prev, ride, fleet, binding, node, issued, starts>>

\* commitCreationProjections looks at the live record in the middle of its
\* Firestore transaction, which cannot hold it.
CheckNode(r) ==
    /\ At(r, "check")
    /\ LiveFor(node, req[r].sid)
    /\ req' = [req EXCEPT ![r] = [@ EXCEPT !.pc = "commit"]]
    /\ UNCHANGED <<storeVars, starts>>

\* The session as projected; a resume leaves its updatedAt alone.
Register(r, st) ==
    /\ status' = [status EXCEPT ![req[r].sid] = st]
    /\ quiet' = IF req[r].renews THEN [quiet EXCEPT ![req[r].sid] = 0] ELSE quiet

Departed(trip) == IF trip = "in" THEN "active" ELSE "armed"

Further(i, j) == IF i > j THEN i ELSE j

\* Faulty: the session may have ended meanwhile.
MayProjectEnded(s) == ride.session \in {None, s}

MayProject(s) == Open(s) /\ ride.session \in {None, s}

CommitProjections(r) ==
    /\ At(r, "commit")
    /\ Admitted(r)
    /\ LET s == req[r].sid
       IN  /\ MayProject(s)
           /\ Register(r, IF status[s] = "active" THEN "active" ELSE Departed(req[r].trip))
           /\ ride' = [session |-> s, trip |-> IF ride.trip = "in" THEN "in" ELSE req[r].trip,
                       idx |-> Further(ride.idx, req[r].idx), age |-> 0]
    /\ req' = [req EXCEPT ![r] = IF r \in Automatic THEN [@ EXCEPT !.pc = "setup"] ELSE Idle]
    /\ UNCHANGED <<prev, lock, fleet, binding, node, issued, starts>>

\* Without a key nothing is checked again before the projections are written.
WriteUnguarded(r, docs) ==
    /\ \/ At(r, "batch") /\ docs = req[r].todo
       \/ At(r, "sets") /\ docs \subseteq req[r].todo /\ Cardinality(docs) = 1
    /\ LET s == req[r].sid
       IN  /\ IF "session" \in docs THEN Register(r, Departed(req[r].trip)) ELSE UNCHANGED <<status, quiet>>
           /\ ride' = IF "ride" \in docs
                      THEN [session |-> s, trip |-> req[r].trip, idx |-> req[r].idx, age |-> 0] ELSE ride
    /\ req' = [req EXCEPT ![r] = IF docs = @.todo THEN Idle ELSE [@ EXCEPT !.todo = @ \ docs]]
    /\ UNCHANGED <<prev, lock, fleet, binding, node, issued, starts>>

\* completeAutomaticSetup: the device need not ask for this service again.
FinishSetup(r) ==
    /\ At(r, "setup")
    /\ node' = IF node.session = req[r].sid THEN [node EXCEPT !.setup = FALSE] ELSE node
    /\ req' = [req EXCEPT ![r] = Idle]
    /\ UNCHANGED <<firestoreVars, starts>>

GiveUp(r) ==
    /\ ~At(r, "idle")
    /\ req' = [req EXCEPT ![r] = Idle]
    /\ UNCHANGED <<storeVars, starts>>

StartStep(r) ==
    \/ ReadAdmission(r) \/ Rearm(r) \/ BeginRequest(r) \/ ReadBinding(r) \/ ReadNode(r)
    \/ ClaimResume(r) \/ ClaimOwned(r) \/ ClaimFree(r) \/ ReadRide(r) \/ ClaimNode(r)
    \/ LoseNode(r) \/ FailStart(r) \/ CheckNode(r) \/ CommitProjections(r)
    \/ \E docs \in SUBSET {"session", "ride"} : WriteUnguarded(r, docs)
    \/ FinishSetup(r) \/ GiveUp(r)
==============================================================================
