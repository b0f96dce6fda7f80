------------------------------- MODULE FleetRegistry -------------------------------
(* Who may drive: routes/fleet.ts over services/userAuthorization.ts. The      *)
(* registry names the account of each driver; what the account may do is in    *)
(* its Auth claims and in two records of _userAuthorization, one in Firestore  *)
(* and one in the Realtime Database, whose version must be the token's; the    *)
(* assignment mirror grants the driver's bus and its routes. Nothing commits   *)
(* these together. Mutations run one at a time, under the fleet mutex. Every   *)
(* write may fail; a crash leaves the rest undone and the activation it had    *)
(* sent under way. Checks of rides and devices only refuse: left out.          *)
EXTENDS Integers, FiniteSets, Sequences

CONSTANTS
    Drivers, Accounts, Buses,
    MaxFaults    \* bound: writes that fail and processes that stop

ASSUME NameAssumption == "none" \notin Drivers \cup Accounts \cup Buses

VARIABLES
    registry,    \* drivers/{id}: account and bus
    bus,         \* buses/{id}: Gone, or the version of its routes
    grant,       \* driverRouteAssignments/{id}: bus and the routes granted
    claims,      \* custom claims of each account
    active,      \* the two authorization records of each account
    late,        \* an activation of a process that is gone
    change,      \* the mutation that holds the mutex
    faults       \* failures so far

registryVars == <<registry, bus, grant, claims, active, late, change, faults>>

Stores == {"document", "mirror"}
Nobody == [account |-> "none", bus |-> "none"]
Gone == 0
NoGrant == [bus |-> "none", routes |-> Gone]

\* What a version allows. "passenger" and "blocked" name no driver.
Nothing == [version |-> 0, role |-> "passenger", driver |-> "none", bus |-> "none"]
Blocked(v) == [version |-> v, role |-> "blocked", driver |-> "none", bus |-> "none"]
Passenger == [role |-> "passenger", driver |-> "none", bus |-> "none"]
Driver(d, b) == [role |-> "driver", driver |-> IF b = "none" THEN "none" ELSE d, bus |-> b]
Versioned(rights, v) == [version |-> v, role |-> rights.role, driver |-> rights.driver, bus |-> rights.bus]
Rights(record) == [role |-> record.role, driver |-> record.driver, bus |-> record.bus]

\* at: the step of the mutation. todo: drivers it still authorizes. pub: the
\* publication under way. write: the grant to be written beside it.
NoPublication == [account |-> "none", at |-> "none", version |-> 0, rights |-> Passenger]
NoWrite == [driver |-> "none", value |-> NoGrant]
Rest == [kind |-> "none", at |-> "none", driver |-> "none", account |-> "none", bus |-> "none",
         todo |-> {}, pub |-> NoPublication, write |-> NoWrite, failed |-> FALSE]

RegistryInit ==
    /\ registry = [d \in Drivers |-> Nobody]
    /\ bus = [b \in Buses |-> 1]
    /\ grant = [d \in Drivers |-> NoGrant]
    /\ claims = [u \in Accounts |-> Nothing]
    /\ active = [k \in Stores \X Accounts |-> Nothing]
    /\ late = {}
    /\ change = Rest
    /\ faults = 0

\* randomUUID: a version no record, claim or late write of the account has.
Unused(u, v) ==
    /\ claims[u].version # v /\ \A s \in Stores : active[<<s, u>>].version # v
    /\ \A w \in late : w.account = u => w.record.version # v
Fresh(u) == CHOOSE v \in 1..6 : Unused(u, v) /\ \A x \in 1..6 : Unused(u, x) => v <= x

\* A step succeeds, or is one of the failures of the bound.
Succeeds == UNCHANGED faults
Faults == faults < MaxFaults /\ faults' = faults + 1

-----------------------------------------------------------------------------
\* publishUserAuthorization: block both records, move the claims to a fresh
\* version, activate both records where they still have it.

Publish(u, rights) == [account |-> u, at |-> "block", version |-> Fresh(u), rights |-> rights]

\* Both are written and awaited, whichever fails.
Block ==
    /\ change.pub.at = "block"
    /\ \E done \in SUBSET Stores :
          /\ IF done = Stores THEN Succeeds ELSE Faults
          /\ active' = [k \in Stores \X Accounts |->
                          IF k[1] \in done /\ k[2] = change.pub.account
                          THEN Blocked(change.pub.version) ELSE active[k]]
          /\ change' = IF done = Stores THEN [change EXCEPT !.pub.at = "claims"]
                       ELSE [change EXCEPT !.pub = NoPublication, !.failed = TRUE]
    /\ UNCHANGED <<registry, bus, grant, claims, late>>

\* Refresh tokens are revoked first; either call may fail.
SetClaims ==
    /\ change.pub.at = "claims"
    /\ LET p == change.pub IN
       \/ /\ Succeeds
          /\ claims' = [claims EXCEPT ![p.account] = Versioned(p.rights, p.version)]
          /\ change' = [change EXCEPT !.pub.at = "activate"]
       \/ /\ Faults
          /\ change' = [change EXCEPT !.pub = NoPublication, !.failed = TRUE]
          /\ UNCHANGED claims
    /\ UNCHANGED <<registry, bus, grant, active, late>>

\* Faulty: the record is written whatever its version is.
Overwrites(s, u, record) == TRUE

StillOurs(s, u, record) == active[<<s, u>>].version = record.version

\* A failed activation is rolled back, which may fail as well.
Activate ==
    /\ change.pub.at = "activate"
    /\ LET p == change.pub
           record == Versioned(p.rights, p.version)
       IN \E done \in SUBSET Stores, back \in SUBSET Stores :
          /\ IF done = Stores THEN back = {} /\ Succeeds ELSE Faults
          /\ active' = [k \in Stores \X Accounts |->
                          IF k[2] # p.account \/ ~StillOurs(k[1], p.account, record) THEN active[k]
                          ELSE IF k[1] \in back THEN Blocked(p.version)
                          ELSE IF k[1] \in done THEN record ELSE active[k]]
          /\ change' = [change EXCEPT !.pub = NoPublication, !.failed = @ \/ done # Stores]
    /\ UNCHANGED <<registry, bus, grant, claims, late>>

\* The Realtime Database may still apply what a killed process had sent.
LateActivation ==
    \E w \in late :
        /\ late' = late \ {w}
        /\ active' = IF StillOurs(w.store, w.account, w.record)
                     THEN [active EXCEPT ![<<w.store, w.account>>] = w.record] ELSE active
        /\ UNCHANGED <<registry, bus, grant, claims, change, faults>>

-----------------------------------------------------------------------------
\* applyDriverAuthorization, from the registry as it is, not as requested.

\* Faulty: the claims alone are compared.
ClaimsAgree(u, rights) == Rights(claims[u]) = rights /\ claims[u].version # 0

\* authorizationIsCurrent and the comparison of the claims.
Agrees(u, rights) ==
    /\ Rights(claims[u]) = rights /\ claims[u].version # 0
    /\ \A s \in Stores : active[<<s, u>>] = claims[u]

Expected(d) ==
    LET b == registry[d].bus IN
    IF b = "none" THEN NoGrant ELSE [bus |-> b, routes |-> bus[b]]

\* The publication and the grant this driver needs, begun together. A driver
\* without an account, or on a bus that is gone, is an error.
Apply(c, d) ==
    LET u == registry[d].account
        b == registry[d].bus
        refused == u = "none" \/ (b # "none" /\ bus[b] = Gone)
    IN IF refused THEN [c EXCEPT !.failed = TRUE]
       ELSE [c EXCEPT
                !.pub = IF Agrees(u, Driver(d, b)) THEN NoPublication ELSE Publish(u, Driver(d, b)),
                !.write = IF grant[d] = Expected(d) THEN NoWrite
                          ELSE [driver |-> d, value |-> Expected(d)]]

\* The grant is written beside the publication; it may fail.
WriteGrant ==
    /\ change.write # NoWrite
    /\ \/ /\ Succeeds
          /\ grant' = [grant EXCEPT ![change.write.driver] = change.write.value]
          /\ change' = [change EXCEPT !.write = NoWrite]
       \/ /\ Faults
          /\ change' = [change EXCEPT !.write = NoWrite, !.failed = TRUE]
          /\ UNCHANGED grant
    /\ UNCHANGED <<registry, bus, claims, active, late>>

Quiet == change.pub = NoPublication /\ change.write = NoWrite
Step(place) == change.at = place /\ Quiet

-----------------------------------------------------------------------------
\* PUT /drivers/:id.

\* Another driver's account, or a bus without routes, is refused.
PutDriver(d, u, b) ==
    /\ change = Rest
    /\ \A o \in Drivers \ {d} : registry[o].account # u
    /\ b # "none" => bus[b] # Gone
    /\ LET was == registry[d].account
           asked == [Rest EXCEPT !.kind = "put", !.at = "register",
                                 !.driver = d, !.account = u, !.bus = b]
       IN change' = IF was \notin {"none", u}
                    THEN [asked EXCEPT !.pub = Publish(was, Passenger)] ELSE asked
    /\ UNCHANGED <<registry, bus, grant, claims, active, late, faults>>

\* Faulty: the registry is written although the old account keeps its rights.
RegisterAnyway ==
    /\ Step("register")
    /\ registry' = [registry EXCEPT ![change.driver] =
                      [account |-> change.account, bus |-> change.bus]]
    /\ change' = [change EXCEPT !.at = "authorize", !.todo = {change.driver}]
    /\ UNCHANGED <<bus, grant, claims, active, late, faults>>

\* The old account was demoted, or the request fails with nothing written.
Register ==
    /\ Step("register") /\ ~change.failed
    /\ registry' = [registry EXCEPT ![change.driver] =
                      [account |-> change.account, bus |-> change.bus]]
    /\ change' = [change EXCEPT !.at = "authorize", !.todo = {change.driver}]
    /\ UNCHANGED <<bus, grant, claims, active, late, faults>>

-----------------------------------------------------------------------------
\* DELETE /drivers/:id.

DeleteDriver(d) ==
    /\ change = Rest /\ registry[d] # Nobody
    /\ change' = [Rest EXCEPT !.kind = "delete", !.at = "remove", !.driver = d,
                              !.pub = Publish(registry[d].account, Passenger)]
    /\ UNCHANGED <<registry, bus, grant, claims, active, late, faults>>

\* The registry record goes after the demotion, its grant beside it.
Remove ==
    /\ Step("remove") /\ ~change.failed
    /\ \/ registry' = [registry EXCEPT ![change.driver] = Nobody] /\ Succeeds
       \/ UNCHANGED registry /\ Faults
    /\ change' = [change EXCEPT !.at = "done", !.write = [driver |-> change.driver, value |-> NoGrant]]
    /\ UNCHANGED <<bus, grant, claims, active, late>>

-----------------------------------------------------------------------------
\* PUT and DELETE /buses/:id, and the reconciliation.

DriversOf(b) == {d \in Drivers : registry[d].bus = b}

PutBus(b) ==
    /\ change = Rest
    /\ \E r \in {1, 2} :
          /\ bus[b] # r
          /\ bus' = [bus EXCEPT ![b] = r]
    /\ change' = [Rest EXCEPT !.kind = "bus", !.at = "authorize", !.todo = DriversOf(b)]
    /\ UNCHANGED <<registry, grant, claims, active, late, faults>>

\* Its drivers are unassigned one by one, then it is deleted.
DeleteBus(b) ==
    /\ change = Rest /\ bus[b] # Gone
    /\ change' = [Rest EXCEPT !.kind = "unbus", !.at = "unassign", !.bus = b, !.todo = DriversOf(b)]
    /\ UNCHANGED <<registry, bus, grant, claims, active, late, faults>>

Unassign ==
    /\ Step("unassign") /\ ~change.failed
    /\ \E d \in change.todo :
          /\ registry' = [registry EXCEPT ![d].bus = "none"]
          /\ change' = [change EXCEPT !.at = "authorize", !.driver = d]
    /\ UNCHANGED <<bus, grant, claims, active, late, faults>>

DropBus ==
    /\ Step("unassign") /\ ~change.failed /\ change.todo = {}
    /\ bus' = [bus EXCEPT ![change.bus] = Gone]
    /\ change' = [change EXCEPT !.at = "done"]
    /\ UNCHANGED <<registry, grant, claims, active, late, faults>>

\* The whole registry; a failure is recorded and the next driver follows.
Reconcile ==
    /\ change = Rest
    /\ change' = [Rest EXCEPT !.kind = "reconcile", !.at = "authorize",
                              !.todo = {d \in Drivers : registry[d] # Nobody}]
    /\ UNCHANGED <<registry, bus, grant, claims, active, late, faults>>

Authorize ==
    /\ Step("authorize") /\ (~change.failed \/ change.kind = "reconcile")
    /\ \E d \in change.todo :
          /\ change.kind = "unbus" => d = change.driver
          /\ change' = Apply([change EXCEPT !.todo = @ \ {d},
                                            !.at = IF change.kind = "unbus" THEN "unassign" ELSE @], d)
    /\ UNCHANGED <<registry, bus, grant, claims, active, late, faults>>

\* The request is answered.
Answer ==
    /\ Quiet /\ change.kind # "none"
    /\ \/ change.failed /\ (change.kind # "reconcile" \/ change.todo = {})
       \/ change.at = "authorize" /\ change.todo = {}
       \/ change.at = "done"
    /\ change' = IF change.kind = "reconcile" /\ ~change.failed
                 THEN [Rest EXCEPT !.at = "reconciled"] ELSE Rest
    /\ UNCHANGED <<registry, bus, grant, claims, active, late, faults>>

Close ==
    /\ change.at = "reconciled"
    /\ change' = Rest
    /\ UNCHANGED <<registry, bus, grant, claims, active, late, faults>>

\* The process is gone; its mutex is released by hand. Bound: one activation
\* of a dead process is under way at a time.
Crash ==
    /\ change.kind # "none" /\ Faults
    /\ LET p == change.pub
           record == Versioned(p.rights, p.version)
       IN late' \in {late} \union
                    (IF p.at = "activate" /\ late = {}
                     THEN {{[store |-> s, account |-> p.account, record |-> record]} : s \in Stores}
                     ELSE {})
    /\ change' = Rest
    /\ UNCHANGED <<registry, bus, grant, claims, active>>

-----------------------------------------------------------------------------
RegistryNext ==
    \/ Block \/ SetClaims \/ Activate \/ LateActivation \/ WriteGrant
    \/ \E d \in Drivers, u \in Accounts, b \in Buses \union {"none"} : PutDriver(d, u, b)
    \/ Register \/ (\E d \in Drivers : DeleteDriver(d)) \/ Remove
    \/ (\E b \in Buses : PutBus(b) \/ DeleteBus(b))
    \/ Unassign \/ DropBus \/ Reconcile \/ Authorize \/ Answer \/ Close \/ Crash

RegistrySpec == RegistryInit /\ [][RegistryNext]_registryVars

-----------------------------------------------------------------------------
\* Properties.

\* An account that a store lets drive as a driver is the account the registry
\* names for it, at every moment of every mutation and after every failure
\* ("Revoke the old principal before reusing this driver ID", fleet.ts:444).
OnlyRegisteredDrive ==
    \A s \in Stores, u \in Accounts :
        active[<<s, u>>].driver # "none" => registry[active[<<s, u>>].driver].account = u

\* A reconciliation that reports no failure left nothing to repair, whatever
\* failed or crashed before it (fleet.ts:177).
ReconciledAgrees ==
    change.at = "reconciled" =>
        \A d \in {x \in Drivers : registry[x] # Nobody} :
            LET u == registry[d].account IN
            /\ grant[d] = Expected(d)
            /\ \A s \in Stores : /\ active[<<s, u>>].version = claims[u].version
                                  /\ Rights(active[<<s, u>>]) = Driver(d, registry[d].bus)

\* Both: whatever failed on the way, the rights in the three stores are at most
\* the registry's, and exactly these once a mutation was answered
\* (userAuthorization.ts:49).
RightsFollowRegistry == OnlyRegisteredDrive /\ ReconciledAgrees
=============================================================================
