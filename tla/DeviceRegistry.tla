--------------------------- MODULE DeviceRegistry ---------------------------
(* The registry of trackers (backend routes/devices.ts): assignment to a bus   *)
(* and route, disabling, the retirement of the presence left behind, and the   *)
(* credential caches of the replicas, filled and invalidated behind each       *)
(* other's back (deviceTelemetryService.ts). A node is one bus on one route.   *)
(* Every document carries the number of its writes.                            *)
EXTENDS Integers, FiniteSets

CONSTANTS
    Devices, Nodes, NoNode,
    Replicas,   \* processes of the backend, each with a cache
    Puts,       \* PUT requests that may be under way at once (bound)
    Reqs,       \* telemetry requests that may be under way at once (bound)
    MaxWrites   \* writes of a registry document (bound)

ASSUME RegistryAssumption == NoNode \notin Nodes /\ MaxWrites \in Nat

VARIABLES
    doc,        \* devices/<id>: node, revision, enabled, pending retirement, writes
    busy,       \* nodes with an active ride or a bus lock
    announced,  \* _deviceCredentialVersions: writes covered by the last announcement
    heard,      \* replica -> device -> announcement its listener delivered
    cache,      \* replica -> device -> entry
    fill,       \* replica -> device -> the verification under way
    put,        \* PUT request -> its step and what its transaction decided
    req,        \* telemetry request -> the assignment it was authorised with
    presence,   \* activeBuses/<node>: device, revision and tombstone
    retired     \* answered reassignments: device, node left behind, revision

registryVars == <<doc, busy, announced, heard, cache, fill, put, req, presence, retired>>

NoEntry == [verdict |-> "none", node |-> NoNode, rev |-> 0, writes |-> 0, fresh |-> FALSE]
NoFill == [step |-> "none", node |-> NoNode, rev |-> 0, enabled |-> FALSE, writes |-> 0, current |-> FALSE]
NoPending == [node |-> NoNode, rev |-> 0]
IdlePut == [step |-> "idle", device |-> CHOOSE d \in Devices : TRUE, retirement |-> NoPending]
NoReq == [device |-> CHOOSE d \in Devices : TRUE, node |-> NoNode, rev |-> 0]
NoPresence == [device |-> {}, rev |-> 0, tombstone |-> 0]

RegistryInit ==
    /\ doc = [d \in Devices |-> [node |-> NoNode, rev |-> 0, enabled |-> TRUE,
                                 pending |-> NoPending, writes |-> 0]]
    /\ busy = {}
    /\ announced = [d \in Devices |-> 0]
    /\ heard = [r \in Replicas |-> [d \in Devices |-> 0]]
    /\ cache = [r \in Replicas |-> [d \in Devices |-> NoEntry]]
    /\ fill = [r \in Replicas |-> [d \in Devices |-> NoFill]]
    /\ put = [p \in Puts |-> IdlePut]
    /\ req = [q \in Reqs |-> NoReq]
    /\ presence = [n \in Nodes |-> NoPresence]
    /\ retired = {}

-----------------------------------------------------------------------------
(* PUT /devices/:id and its steps; a failure between two answers 500.          *)

\* The target has a ride, a lock or another device; or the old place has a ride.
Conflict(d, n) ==
    \/ \E e \in Devices \ {d} : doc[e].node = n
    \/ doc[d].node # n /\ {n, doc[d].node} \cap busy # {}

\* Faulty: the target's other devices are not looked up.
RidesConflict(d, n) == doc[d].node # n /\ {n, doc[d].node} \cap busy # {}

\* The transaction: an assignment with a retirement pending cannot change; a
\* change takes the next revision and leaves the old node to be retired.
Assign(p, d, n) ==
    /\ put[p] = IdlePut /\ doc[d].writes < MaxWrites
    /\ ~Conflict(d, n)
    /\ LET changed == doc[d].node # n
           rev == doc[d].rev + IF changed THEN 1 ELSE 0
           retirement == IF changed /\ doc[d].node # NoNode
                         THEN [node |-> doc[d].node, rev |-> rev] ELSE doc[d].pending
       IN  /\ changed => doc[d].pending = NoPending
           /\ \E enabled \in {doc[d].enabled, TRUE, FALSE} :
                  doc' = [doc EXCEPT ![d] = [node |-> n, rev |-> rev, enabled |-> enabled,
                                             pending |-> retirement, writes |-> @.writes + 1]]
           /\ put' = [put EXCEPT ![p] = [step |-> "announce", device |-> d, retirement |-> retirement]]
    /\ UNCHANGED <<busy, announced, heard, cache, fill, req, presence, retired>>

\* disableDevice(): the write, then the same announcement.
Disable(p, d) ==
    /\ put[p] = IdlePut /\ doc[d].writes < MaxWrites
    /\ doc[d].node # NoNode
    /\ doc' = [doc EXCEPT ![d].enabled = FALSE, ![d].writes = @ + 1]
    /\ put' = [put EXCEPT ![p] = [step |-> "announce", device |-> d, retirement |-> NoPending]]
    /\ UNCHANGED <<busy, announced, heard, cache, fill, req, presence, retired>>

\* invalidateDeviceCredentialCache(): entries go, fills may no longer publish.
Invalidated(r, d) ==
    /\ cache' = [cache EXCEPT ![r][d] = NoEntry]
    /\ fill' = [fill EXCEPT ![r][d].current = FALSE]

\* publishDeviceCredentialInvalidation(): at once here, and announced to all.
Announce(p, r) ==
    LET d == put[p].device IN
    /\ put[p].step = "announce"
    /\ Invalidated(r, d)
    /\ announced' = [announced EXCEPT ![d] = doc[d].writes]
    /\ put' = [put EXCEPT ![p] =
                  IF @.retirement = NoPending THEN IdlePut ELSE [@ EXCEPT !.step = "retire"]]
    /\ UNCHANGED <<doc, busy, heard, req, presence, retired>>

\* retireDeviceAssignment(): the tombstone on the node the device left, unless
\* the node is another device's, already of this revision, or not there.
Retire(p) ==
    LET d == put[p].device
        n == put[p].retirement.node
        rev == put[p].retirement.rev
    IN
    /\ put[p].step = "retire"
    /\ presence' = IF presence[n].device = {d} /\ presence[n].rev < rev /\ n \notin busy
                   THEN [presence EXCEPT ![n].tombstone = rev] ELSE presence
    /\ put' = [put EXCEPT ![p].step = "clear"]
    /\ retired' = retired \cup {[device |-> d, node |-> n, rev |-> rev]}
    /\ UNCHANGED <<doc, busy, announced, heard, cache, fill, req>>

\* Faulty: whatever is pending is cleared.
AnyPending(p) == TRUE

\* The pending retirement is still the one this request carried out.
OwnPending(p) == doc[put[p].device].pending.rev = put[p].retirement.rev

ClearPending(p) ==
    LET d == put[p].device IN
    /\ put[p].step = "clear"
    /\ doc' = IF OwnPending(p) THEN [doc EXCEPT ![d].pending = NoPending] ELSE doc
    /\ put' = [put EXCEPT ![p] = IdlePut]
    /\ UNCHANGED <<busy, announced, heard, cache, fill, req, presence, retired>>

\* The request fails, or its process dies; what is pending is for a retry.
PutFails(p) ==
    /\ put[p] # IdlePut
    /\ put' = [put EXCEPT ![p] = IdlePut]
    /\ UNCHANGED <<doc, busy, announced, heard, cache, fill, req, presence, retired>>

\* Rides start and end on assigned nodes.
RideChanges(n) ==
    /\ busy' = IF n \in busy THEN busy \ {n} ELSE busy \cup {n}
    /\ n \in busy \/ \E d \in Devices : doc[d].node = n
    /\ UNCHANGED <<doc, announced, heard, cache, fill, put, req, presence, retired>>

-----------------------------------------------------------------------------
(* The credential cache of a replica.                                          *)

\* The listener of _deviceCredentialVersions delivers what was announced.
Deliver(r, d) ==
    /\ heard[r][d] # announced[d]
    /\ heard' = [heard EXCEPT ![r][d] = announced[d]]
    /\ Invalidated(r, d)
    /\ UNCHANGED <<doc, busy, announced, put, req, presence, retired>>

\* The listener fails: every entry goes, every fill is void, and the next check
\* subscribes again, which delivers every announcement anew.
ListenerFails(r) ==
    /\ heard' = [heard EXCEPT ![r] = [d \in Devices |-> 0]]
    /\ cache' = [cache EXCEPT ![r] = [d \in Devices |-> NoEntry]]
    /\ fill' = [fill EXCEPT ![r] = [d \in Devices |-> [fill[r][d] EXCEPT !.current = FALSE]]]
    /\ UNCHANGED <<doc, busy, announced, put, req, presence, retired>>

\* CREDENTIAL_CACHE_MS or NEGATIVE_CACHE_MS is over; the entry stays as proof
\* that the pair verified before.
EntryExpires(r, d) ==
    /\ cache[r][d].fresh
    /\ cache' = [cache EXCEPT ![r][d] = IF @.verdict = "assigned" THEN [@ EXCEPT !.fresh = FALSE] ELSE NoEntry]
    /\ UNCHANGED <<doc, busy, announced, heard, fill, put, req, presence, retired>>

\* A miss starts the single flight; the registry document is read in it.
StartFill(r, d) ==
    /\ ~cache[r][d].fresh /\ fill[r][d].step = "none"
    /\ fill' = [fill EXCEPT ![r][d] = [NoFill EXCEPT !.step = "read", !.current = TRUE]]
    /\ UNCHANGED <<doc, busy, announced, heard, cache, put, req, presence, retired>>

ReadDocument(r, d) ==
    /\ fill[r][d].step = "read"
    /\ fill' = [fill EXCEPT ![r][d] =
                   IF ~@.current THEN NoFill
                   ELSE [step |-> "verify", node |-> doc[d].node, rev |-> doc[d].rev,
                         enabled |-> doc[d].enabled, writes |-> doc[d].writes, current |-> TRUE]]
    /\ UNCHANGED <<doc, busy, announced, heard, cache, put, req, presence, retired>>

\* Faulty: a fill publishes what it read, invalidated or not.
AlwaysCurrent(f) == TRUE
StillCurrent(f) == f.current

\* The key derivation and the reads of bus and route are over: the verdict goes
\* to the cache and to the callers, one of which is the request q. A fill that
\* was invalidated or that failed leaves no entry.
PublishVerdict(r, d, q) ==
    LET f == fill[r][d] IN
    /\ f.step = "verify"
    /\ fill' = [fill EXCEPT ![r][d] = NoFill]
    /\ \/ UNCHANGED <<cache, req>>
       \/ /\ StillCurrent(f)
          /\ f.enabled /\ f.node # NoNode
          /\ cache' = [cache EXCEPT ![r][d] = [verdict |-> "assigned", node |-> f.node, rev |-> f.rev,
                                               writes |-> f.writes, fresh |-> TRUE]]
          /\ req[q] = NoReq
          /\ req' = [req EXCEPT ![q] = [device |-> d, node |-> f.node, rev |-> f.rev]]
       \/ /\ StillCurrent(f)
          /\ cache' = [cache EXCEPT ![r][d] = [NoEntry EXCEPT !.verdict = "refused",
                                                   !.writes = f.writes, !.fresh = TRUE]]
          /\ UNCHANGED req
    /\ UNCHANGED <<doc, busy, announced, heard, put, presence, retired>>

\* A hit, or a stale entry while the reserved lane has no place.
Hit(r, d, q) ==
    /\ cache[r][d].verdict = "assigned"
    /\ req[q] = NoReq
    /\ req' = [req EXCEPT ![q] = [device |-> d, node |-> cache[r][d].node, rev |-> cache[r][d].rev]]
    /\ UNCHANGED <<doc, busy, announced, heard, cache, fill, put, presence, retired>>

-----------------------------------------------------------------------------
\* nextTelemetryValue() on the presence: refused behind a tombstone of the same
\* device with a later revision.
Refused(q) ==
    LET p == presence[req[q].node] IN
    p.tombstone > req[q].rev /\ p.device = {req[q].device}

\* Faulty: the tombstone is not looked at.
NeverRefused(q) == FALSE

\* persistTelemetry(): the write drops a tombstone; it may also come too late
\* for its time stamp, or never.
PersistPresence(q) ==
    /\ req[q] # NoReq
    /\ \/ /\ ~Refused(q)
          /\ presence' = [presence EXCEPT ![req[q].node] =
                             [device |-> {req[q].device}, rev |-> req[q].rev, tombstone |-> 0]]
       \/ UNCHANGED presence
    /\ req' = [req EXCEPT ![q] = NoReq]
    /\ UNCHANGED <<doc, busy, announced, heard, cache, fill, put, retired>>

AdminStep ==
    \/ \E p \in Puts, d \in Devices : Disable(p, d) \/ \E n \in Nodes : Assign(p, d, n)
    \/ \E p \in Puts : Retire(p) \/ ClearPending(p) \/ PutFails(p) \/ \E r \in Replicas : Announce(p, r)
CacheStep ==
    \/ \E r \in Replicas : ListenerFails(r)
    \/ \E r \in Replicas, d \in Devices :
          Deliver(r, d) \/ EntryExpires(r, d) \/ StartFill(r, d) \/ ReadDocument(r, d)
    \/ \E r \in Replicas, d \in Devices, q \in Reqs : PublishVerdict(r, d, q) \/ Hit(r, d, q)
RegistryNext ==
    \/ AdminStep \/ CacheStep
    \/ \E n \in Nodes : RideChanges(n)
    \/ \E q \in Reqs : PersistPresence(q)

RegistrySpec == RegistryInit /\ [][RegistryNext]_registryVars

-----------------------------------------------------------------------------
\* No two trackers hold the same bus and route, however assignments overlap:
\* the second answer of PUT /devices/:id is 409.
OneDevicePerNode == \A d, e \in Devices : doc[d].node = doc[e].node /\ doc[d].node # NoNode => d = e

\* What a cache still answers is what the registry says, unless the write's
\* announcement has not been made or has not reached the replica: a fill that
\* read the document before a revocation never outlives it.
CacheIsCurrent ==
    \A r \in Replicas, d \in Devices :
        cache[r][d] # NoEntry =>
            \/ cache[r][d].writes = doc[d].writes
            \/ announced[d] < doc[d].writes
            \/ heard[r][d] # announced[d]

\* A node that was left is retired, or its retirement is still on record for a
\* retry: a request that failed half-way loses nothing, and a slow request never
\* clears the retirement of a later reassignment.
LeftBehindIsRetired ==
    [][\A d \in Devices :
           doc[d].pending # NoPending /\ doc'[d].pending # doc[d].pending =>
               [device |-> d, node |-> doc[d].pending.node, rev |-> doc[d].pending.rev] \in retired]_registryVars

\* The comment at deviceAssignmentRetirement.ts:3: "Keep a tombstone so an
\* already authenticated old request cannot revive presence."
RetiredStaysDark ==
    [][\A t \in retired : \A q \in Reqs :
           req[q].device = t.device /\ req[q].node = t.node /\ req[q].rev < t.rev
               /\ req'[q] = NoReq => presence'[t.node] = presence[t.node]]_registryVars
=============================================================================
