---------------------------- MODULE WorkerLease ----------------------------
(***************************************************************************)
(* Election of the singleton background worker: startWorkerCoordinator in  *)
(* backend/src/services/workerCoordinator.ts.  Every backend process tries *)
(* to hold the Firestore document _worker_leases/trip-state-worker and,    *)
(* while it does, owns a WorkerFence with a deadline on its monotonic      *)
(* clock.                                                                  *)
(*                                                                         *)
(* now is true time.  Monotonic clocks follow it; a Date.now() reading is  *)
(* any value within Skew of it, chosen anew each time, which is what       *)
(* WORKER_LEADERSHIP.md section 5 demands of the runtime clocks.           *)
(*                                                                         *)
(* A Firestore transaction is a read, a commit request and a reply.  The   *)
(* commit applies only if the document was not written since the read      *)
(* (field fresh), and its reply may be lost.  A process restarts under a   *)
(* new random owner id, that is, as another member of Procs.               *)
(***************************************************************************)
EXTENDS Integers, FiniteSets

CONSTANTS
    Procs,      \* owner ids, one per backend process ever started
    NoOwner,    \* the null ownerId of a released or never written lease
    Lease,      \* LEASE_DURATION_MS
    Skew,       \* WORKER_CLOCK_SKEW_MS
    MaxTime,    \* bound of the model: true time stops here
    MaxLate     \* bound of the model: commits of failed attempts in flight

ASSUME NoOwnerAssumption == NoOwner \notin Procs
ASSUME TimeAssumption == /\ Lease \in Nat
                         /\ Skew \in Nat
                         /\ MaxTime \in Nat
                         /\ MaxLate \in Nat
                         /\ Lease > 2 * Skew

VARIABLES
    now,        \* true time
    lease,      \* the lease document: [owner, gen, exp]
    late,       \* lease commits sent by an attempt that has since failed
    status,     \* "running", "stopping", "stopped" or "crashed"
    pc,         \* the renewal in flight, "idle" when renewInFlight is null
    current,    \* attempt = transition, for the renewal in flight
    started,    \* performance.now() at the start of the latest renewal
    plan,       \* the lease write the renewal's transaction computed
    grant,      \* what the transaction returned: a generation and an expiry
    due,        \* deadline computed from the grant
    fence,      \* the coordinator's WorkerFence: [gen, deadline] or NoFence
    active,     \* background workers are started
    draining,   \* stopWorkPromise is pending
    releases    \* releaseLease of the stop hook

leaseVars == <<now, lease, late, status, pc, current, started, plan, grant,
               due, fence, active, draining, releases>>

NoFence == [gen |-> 0, deadline |-> -1]
NoGrant == [gen |-> 0, exp |-> 0]
NoPlan  == [gen |-> 0, exp |-> 0, fresh |-> FALSE]

\* A Date.now() reading taken at true time now.
WallClock == (now - Skew)..(now + Skew)

\* WorkerFence.assert() passes: not revoked and before the deadline.
Usable(p) == fence[p] # NoFence /\ now < fence[p].deadline

TypeOK ==
    /\ now \in Nat
    /\ lease \in [owner : Procs \union {NoOwner}, gen : Nat, exp : Int]
    /\ late \subseteq [owner : Procs, gen : Nat, exp : Int]
    /\ status \in [Procs -> {"running", "stopping", "stopped", "crashed"}]
    /\ pc \in [Procs -> {"idle", "txn", "commit", "reply", "restart", "drain"}]
    /\ current \in [Procs -> BOOLEAN]
    /\ started \in [Procs -> Nat]
    /\ plan \in [Procs -> [gen : Nat, exp : Int, fresh : BOOLEAN]]
    /\ grant \in [Procs -> [gen : Nat, exp : Int]]
    /\ due \in [Procs -> Int]
    /\ fence \in [Procs -> [gen : Nat, deadline : Int]]
    /\ active \in [Procs -> BOOLEAN]
    /\ draining \in [Procs -> BOOLEAN]
    /\ releases \in [Procs -> BOOLEAN]

LeaseInit ==
    /\ now = 0
    /\ lease = [owner |-> NoOwner, gen |-> 0, exp |-> 0]
    /\ late = {}
    /\ status = [p \in Procs |-> "running"]
    /\ pc = [p \in Procs |-> "idle"]
    /\ current = [p \in Procs |-> FALSE]
    /\ started = [p \in Procs |-> 0]
    /\ plan = [p \in Procs |-> NoPlan]
    /\ grant = [p \in Procs |-> NoGrant]
    /\ due = [p \in Procs |-> 0]
    /\ fence = [p \in Procs |-> NoFence]
    /\ active = [p \in Procs |-> FALSE]
    /\ draining = [p \in Procs |-> FALSE]
    /\ releases = [p \in Procs |-> FALSE]

-----------------------------------------------------------------------------
\* Effects several operations share.

\* stopWork: the fence is revoked and, if they ran, the workers are told to
\* stop; their cleanup settles later (Drained).
StopWork(p) ==
    /\ fence' = [fence EXCEPT ![p] = NoFence]
    /\ active' = [active EXCEPT ![p] = FALSE]
    /\ draining' = [draining EXCEPT ![p] = draining[p] \/ active[p]]

KeepWork == UNCHANGED <<fence, active, draining>>

\* A write of the lease document makes every pending commit that read its
\* earlier version fail.  p, the writer, leaves its own commit behind.
WriteLease(p, value) ==
    /\ lease' = value
    /\ late' = {}
    /\ plan' = [q \in Procs |-> IF q = p THEN NoPlan
                                ELSE [plan[q] EXCEPT !.fresh = FALSE]]

-----------------------------------------------------------------------------
\* renew(), step by step.

\* runRenew, from setInterval or at startup: one renewal at a time.  The
\* timer may fire arbitrarily late, so no lower bound on its period is kept.
BeginRenew(p) ==
    /\ status[p] = "running"
    /\ pc[p] = "idle"
    /\ pc' = [pc EXCEPT ![p] = "txn"]
    /\ current' = [current EXCEPT ![p] = TRUE]
    /\ started' = [started EXCEPT ![p] = now]
    /\ grant' = [grant EXCEPT ![p] = NoGrant]
    /\ KeepWork
    /\ UNCHANGED <<now, lease, late, status, plan, due, releases>>

\* Faulty: takes the lease over while its holder's clock may still be behind.
EagerTakeover(p, w) == lease.owner # p /\ lease.exp - Skew > w

\* The holder of an unexpired lease, allowing for the clocks' skew, is
\* someone else.
HeldByOther(p, w) == lease.owner # p /\ lease.exp + Skew > w

\* Faulty: only a released lease starts a new generation.
TakeoverKeepsGeneration(p, w) ==
    IF lease.owner = NoOwner THEN lease.gen + 1 ELSE lease.gen

NextGeneration(p, w) ==
    IF lease.owner = p /\ lease.exp > w THEN lease.gen ELSE lease.gen + 1

\* The transaction callback returns null: stopped, overtaken or refused.
RefuseLease(p) ==
    /\ status[p] # "crashed"
    /\ pc[p] = "txn"
    /\ \/ status[p] # "running" \/ ~current[p]
       \/ \E w \in WallClock : HeldByOther(p, w)
    /\ pc' = [pc EXCEPT ![p] = "reply"]
    /\ KeepWork
    /\ UNCHANGED <<now, lease, late, status, current, started, plan, grant, due,
                   releases>>

\* Or it reads the lease, then Date.now(), and writes the lease.
PlanLease(p) ==
    /\ status[p] = "running"
    /\ pc[p] = "txn"
    /\ current[p]
    /\ \E w \in WallClock :
        /\ ~HeldByOther(p, w)
        /\ plan' = [plan EXCEPT ![p] = [gen |-> NextGeneration(p, w),
                                        exp |-> w + Lease,
                                        fresh |-> TRUE]]
    /\ pc' = [pc EXCEPT ![p] = "commit"]
    /\ KeepWork
    /\ UNCHANGED <<now, lease, late, status, current, started, grant, due,
                   releases>>

\* Firestore applies the commit ...
CommitLease(p) ==
    /\ status[p] # "crashed"
    /\ pc[p] = "commit" /\ plan[p].fresh
    /\ WriteLease(p, [owner |-> p, gen |-> plan[p].gen, exp |-> plan[p].exp])
    /\ grant' = [grant EXCEPT ![p] = [gen |-> plan[p].gen, exp |-> plan[p].exp]]
    /\ pc' = [pc EXCEPT ![p] = "reply"]
    /\ KeepWork
    /\ UNCHANGED <<now, status, current, started, due, releases>>

\* ... or has the callback run again.
RetryLease(p) ==
    /\ status[p] # "crashed"
    /\ pc[p] = "commit" /\ ~plan[p].fresh
    /\ pc' = [pc EXCEPT ![p] = "txn"]
    /\ plan' = [plan EXCEPT ![p] = NoPlan]
    /\ KeepWork
    /\ UNCHANGED <<now, lease, late, status, current, started, grant, due,
                   releases>>

\* The commit request of p is lost, or outlives the attempt that sent it.
LeaveCommit(p) ==
    /\ \/ UNCHANGED late
       \/ /\ pc[p] = "commit" /\ plan[p].fresh
          /\ Cardinality(late) < MaxLate
          /\ late' = late \union {[owner |-> p, gen |-> plan[p].gen, exp |-> plan[p].exp]}
    /\ plan' = [plan EXCEPT ![p] = NoPlan]

\* Such a request is applied after all.
LateCommit(r) ==
    /\ WriteLease(NoOwner, r)
    /\ KeepWork
    /\ UNCHANGED <<now, status, pc, current, started, grant, due, releases>>

\* Faulty: no allowance for skew between the clocks.
SkewlessDeadline(p, w) ==
    LET monotonic == started[p] + Lease
        recorded  == now + (grant[p].exp - w)
    IN  IF monotonic < recorded THEN monotonic ELSE recorded

\* Faulty: the time the transaction took is not deducted.
DeadlineFromReply(p, w) == now + Lease - 2 * Skew

\* deadline = performance.now() + remaining, for a wall-clock reading w.
Deadline(p, w) ==
    LET monotonic == started[p] + Lease - 2 * Skew
        recorded  == now + (grant[p].exp - w - Skew)
    IN  IF monotonic < recorded THEN monotonic ELSE recorded

\* renew's local variables go out of scope.
EndRenew(p, next) ==
    /\ pc' = [pc EXCEPT ![p] = next]
    /\ current' = [current EXCEPT ![p] = FALSE]
    /\ started' = [started EXCEPT ![p] = 0]
    /\ grant' = [grant EXCEPT ![p] = NoGrant]
    /\ due' = [due EXCEPT ![p] = 0]

\* renew gives up: transition += 1; await stopWork().
GiveUp(p) == StopWork(p) /\ EndRenew(p, "drain")

\* renew returns without any effect.
Discard(p) == EndRenew(p, "idle") /\ KeepWork

\* The transaction's result reaches the process: too late to matter ...
IgnoreReply(p) ==
    /\ status[p] # "crashed"
    /\ pc[p] = "reply"
    /\ status[p] # "running" \/ ~current[p]
    /\ Discard(p)
    /\ UNCHANGED <<now, lease, late, status, plan, releases>>

\* ... without the lease, or with no time left on it ...
LoseLease(p) ==
    /\ status[p] = "running" /\ current[p]
    /\ pc[p] = "reply"
    /\ grant[p] = NoGrant \/ \E w \in WallClock : Deadline(p, w) <= now
    /\ GiveUp(p)
    /\ UNCHANGED <<now, lease, late, status, plan, releases>>

Granted(p) ==
    /\ status[p] = "running" /\ current[p]
    /\ pc[p] = "reply"
    /\ grant[p] # NoGrant

SameAcquisition(p) == active[p] /\ fence[p].gen = grant[p].gen

\* Faulty: extend without assert revives a fence that ran out.
RevivingExtend(p) ==
    /\ Granted(p) /\ SameAcquisition(p)
    /\ \E w \in WallClock :
        /\ Deadline(p, w) > now
        /\ fence' = [fence EXCEPT ![p] = [@ EXCEPT !.deadline = Deadline(p, w)]]
    /\ EndRenew(p, "idle")
    /\ UNCHANGED <<now, lease, late, status, plan, active, draining, releases>>

\* ... as a renewal: fence.extend asserts before it extends ...
ExtendFence(p) ==
    /\ Granted(p) /\ SameAcquisition(p)
    /\ Usable(p)
    /\ \E w \in WallClock :
        /\ Deadline(p, w) > now
        /\ fence' = [fence EXCEPT ![p] = [@ EXCEPT !.deadline = Deadline(p, w)]]
    /\ EndRenew(p, "idle")
    /\ UNCHANGED <<now, lease, late, status, plan, active, draining, releases>>

\* ... and its throw ends in the catch clause ...
ExtendThrows(p) ==
    /\ Granted(p) /\ SameAcquisition(p)
    /\ ~Usable(p)
    /\ GiveUp(p)
    /\ UNCHANGED <<now, lease, late, status, plan, releases>>

\* ... or as a new acquisition, for which earlier workers must stop first.
AwaitWorkers(p) ==
    /\ Granted(p) /\ ~SameAcquisition(p)
    /\ \E w \in WallClock :
        /\ Deadline(p, w) > now
        /\ due' = [due EXCEPT ![p] = Deadline(p, w)]
    /\ StopWork(p)
    /\ pc' = [pc EXCEPT ![p] = "restart"]
    /\ UNCHANGED <<now, lease, late, status, plan, current, started, grant,
                   releases>>

\* Faulty: does not wait for the earlier workers' cleanup.
OverlappingStart(p) ==
    /\ status[p] = "running" /\ current[p]
    /\ pc[p] = "restart"
    /\ ~active[p]
    /\ now < due[p]
    /\ fence' = [fence EXCEPT ![p] = [gen |-> grant[p].gen, deadline |-> due[p]]]
    /\ active' = [active EXCEPT ![p] = TRUE]
    /\ EndRenew(p, "idle")
    /\ UNCHANGED <<now, lease, late, status, plan, draining, releases>>

\* After `await stopWorkPromise`: a new fence and a new set of workers ...
StartWork(p) ==
    /\ status[p] = "running" /\ current[p]
    /\ pc[p] = "restart"
    /\ ~draining[p] /\ ~active[p]
    /\ now < due[p]
    /\ fence' = [fence EXCEPT ![p] = [gen |-> grant[p].gen, deadline |-> due[p]]]
    /\ active' = [active EXCEPT ![p] = TRUE]
    /\ EndRenew(p, "idle")
    /\ UNCHANGED <<now, lease, late, status, plan, draining, releases>>

\* ... unless the attempt was overtaken meanwhile.
StaleRestart(p) ==
    /\ status[p] # "crashed"
    /\ pc[p] = "restart"
    /\ ~draining[p]
    /\ status[p] # "running" \/ active[p] \/ ~current[p] \/ now >= due[p]
    /\ Discard(p)
    /\ UNCHANGED <<now, lease, late, status, plan, releases>>

\* The transaction fails, or its reply is lost after the commit was sent.
RenewFails(p) ==
    /\ status[p] # "crashed"
    /\ pc[p] \in {"txn", "commit", "reply"}
    /\ GiveUp(p)
    /\ LeaveCommit(p)
    /\ UNCHANGED <<now, lease, status, releases>>

\* The stopWork() that renew awaits has settled.
FinishRenew(p) ==
    /\ status[p] # "crashed"
    /\ pc[p] = "drain"
    /\ ~draining[p]
    /\ pc' = [pc EXCEPT ![p] = "idle"]
    /\ KeepWork
    /\ UNCHANGED <<now, lease, late, status, current, started, plan, grant,
                   due, releases>>

-----------------------------------------------------------------------------
\* Timers, shutdown, crash and time.

\* expiryTimer fires, at or after the deadline it was armed for.
Expire(p) ==
    /\ status[p] # "crashed"
    /\ fence[p] # NoFence /\ now >= fence[p].deadline
    /\ current' = [current EXCEPT ![p] = FALSE]
    /\ StopWork(p)
    /\ UNCHANGED <<now, lease, late, status, pc, started, plan, grant, due,
                   releases>>

\* Every background worker has finished its cleanup.
Drained(p) ==
    /\ status[p] # "crashed"
    /\ draining[p]
    /\ draining' = [draining EXCEPT ![p] = FALSE]
    /\ UNCHANGED <<now, lease, late, status, pc, current, started, plan,
                   grant, due, fence, active, releases>>

\* The stop hook, up to its await of stopWork.
Stop(p) ==
    /\ status[p] = "running"
    /\ status' = [status EXCEPT ![p] = "stopping"]
    /\ releases' = [releases EXCEPT ![p] = active[p]]
    /\ current' = [current EXCEPT ![p] = FALSE]
    /\ StopWork(p)
    /\ UNCHANGED <<now, lease, late, pc, started, plan, grant, due>>

\* Faulty: the release forgets the generation.
ForgetfulRelease(p) ==
    /\ status[p] = "stopping"
    /\ ~draining[p]
    /\ pc[p] = "idle" /\ releases[p] /\ lease.owner = p
    /\ WriteLease(p, [owner |-> NoOwner, gen |-> 0, exp |-> 0])
    /\ status' = [status EXCEPT ![p] = "stopped"]
    /\ releases' = [releases EXCEPT ![p] = FALSE]
    /\ KeepWork
    /\ UNCHANGED <<now, pc, current, started, grant, due>>

\* The stop hook after that await: the lease is released only by a process
\* that led and has no renewal in flight; the generation is kept.
ReleaseLease(p) ==
    /\ status[p] = "stopping"
    /\ ~draining[p]
    /\ pc[p] = "idle" /\ releases[p] /\ lease.owner = p
    /\ WriteLease(p, [owner |-> NoOwner, gen |-> lease.gen, exp |-> 0])
    /\ status' = [status EXCEPT ![p] = "stopped"]
    /\ releases' = [releases EXCEPT ![p] = FALSE]
    /\ KeepWork
    /\ UNCHANGED <<now, pc, current, started, grant, due>>

\* Nothing to release, or the release failed.
EndStop(p) ==
    /\ status[p] = "stopping"
    /\ ~draining[p]
    /\ status' = [status EXCEPT ![p] = "stopped"]
    /\ releases' = [releases EXCEPT ![p] = FALSE]
    /\ KeepWork
    /\ UNCHANGED <<now, lease, late, plan, pc, current, started, grant, due>>

\* Faulty: shutdown waits for the renewal in flight.
PatientStop(p) == pc[p] = "idle" /\ (ReleaseLease(p) \/ EndStop(p))

FinishStop(p) == ReleaseLease(p) \/ EndStop(p)

\* The process dies; a commit it sent may still be applied.
Crash(p) ==
    /\ status[p] # "crashed"
    /\ status' = [status EXCEPT ![p] = "crashed"]
    /\ LeaveCommit(p)
    /\ EndRenew(p, "idle")
    /\ releases' = [releases EXCEPT ![p] = FALSE]
    /\ fence' = [fence EXCEPT ![p] = NoFence]
    /\ active' = [active EXCEPT ![p] = FALSE]
    /\ draining' = [draining EXCEPT ![p] = FALSE]
    /\ UNCHANGED <<now, lease>>

Tick ==
    /\ now < MaxTime
    /\ now' = now + 1
    /\ UNCHANGED <<lease, late, status, pc, current, started, plan, grant,
                   due, fence, active, draining, releases>>

ProcStep(p) ==
    \/ BeginRenew(p) \/ RefuseLease(p) \/ PlanLease(p)
    \/ CommitLease(p) \/ RetryLease(p) \/ RenewFails(p)
    \/ IgnoreReply(p) \/ LoseLease(p) \/ ExtendFence(p) \/ ExtendThrows(p)
    \/ AwaitWorkers(p) \/ StartWork(p) \/ StaleRestart(p) \/ FinishRenew(p)
    \/ Expire(p) \/ Drained(p) \/ Stop(p) \/ FinishStop(p) \/ Crash(p)

LeaseNext ==
    \/ \E p \in Procs : ProcStep(p)
    \/ \E r \in late : LateCommit(r)
    \/ Tick

LeaseSpec == LeaseInit /\ [][LeaseNext]_leaseVars

-----------------------------------------------------------------------------
\* Properties.

\* At any instant at most one process passes its fence's assert(), however
\* late replies, timers and commits are (workerCoordinator.ts:117-120 against
\* the takeover test at line 103).
SingleLeader ==
    \A p, q \in Procs : Usable(p) /\ Usable(q) => p = q

\* A usable fence is backed by the document: while p may act, the lease names
\* p and p's generation, and it does not run out before the fence does.
LeaderHoldsLease ==
    \A p \in Procs : Usable(p) =>
        /\ lease.owner = p
        /\ lease.gen = fence[p].gen
        /\ fence[p].deadline + Skew <= lease.exp

\* No two processes ever carry fences of the same generation, expired ones
\* included: the generation alone orders their writes (workerFence.ts:91).
GenerationsNeverShared ==
    \A p, q \in Procs :
        p # q /\ fence[p] # NoFence /\ fence[q] # NoFence
            => fence[p].gen # fence[q].gen

\* A new set of workers never runs beside one that is still cleaning up
\* (workerCoordinator.ts:124-127).
OneWorkerSet ==
    \A p \in Procs : active[p] => ~draining[p] /\ fence[p] # NoFence

\* A fence that ran out is never given a new deadline: "One acquisition, never
\* revived after revocation" (workerFence.ts:12).
NeverRevived ==
    [][\A p \in Procs :
        fence[p] # NoFence /\ ~Usable(p) /\ fence'[p] # NoFence
            => fence'[p] = fence[p]]_leaseVars

\* The election keeps Leadership's promise: an acquisition happens only when no
\* earlier fence is usable, and only the holder of the lease starts workers.
Promise == INSTANCE Leadership WITH
    holder     <- lease.owner,
    generation <- lease.gen,
    fence      <- [p \in Procs |-> fence[p].gen],
    usable     <- [p \in Procs |-> Usable(p)]

ImplementsLeadership == Promise!LeaderSpec

\* "Neither shutdown nor revocation may wait for an unbounded renewal"
\* (workerCoordinator.ts:208): wherever a renewal hangs, a stopping process has a
\* step of its own that ends its workers' cleanup or the stop hook.
ShutdownNeverWaits ==
    \A p \in Procs : status[p] = "stopping" => ENABLED (Drained(p) \/ FinishStop(p))

-----------------------------------------------------------------------------
\* The inductive invariant behind these properties.

\* The lease is p's, of generation g, and outlasts the deadline d by Skew.
Holds(p, g, d) == lease.owner = p /\ lease.gen = g /\ d + Skew <= lease.exp

\* A commit that read the present lease either renews it or takes over a lease
\* that ran out on every clock.
Fits(r) ==
    \/ lease.owner = r.owner /\ r.gen = lease.gen
    \/ r.gen = lease.gen + 1 /\ lease.exp - Skew <= now

\* The latest deadline the renewal in flight can obtain.
Latest(p) == started[p] + Lease - 2 * Skew

\* Generations p may still act under.
Carried(p) == {fence[p].gen, grant[p].gen} \ {0}

TimeInv == \A p \in Procs :
    /\ started[p] <= now
    /\ fence[p].deadline <= now + Lease - 2 * Skew
    /\ pc[p] \in {"txn", "commit", "reply"} => fence[p].deadline <= Latest(p)
    /\ pc[p] = "restart" => due[p] <= Latest(p)

RenewInv == \A p \in Procs :
    /\ grant[p] # NoGrant => pc[p] \in {"reply", "restart"} /\ grant[p].gen > 0
    /\ pc[p] = "restart" => grant[p] # NoGrant /\ fence[p] = NoFence
    /\ pc[p] = "commit" => /\ plan[p].exp >= started[p] + Lease - Skew
                           /\ plan[p].gen > 0

WorkInv == \A p \in Procs :
    /\ active[p] <=> fence[p] # NoFence
    /\ active[p] => ~draining[p] /\ fence[p].gen > 0 /\ status[p] = "running"

CommitInv ==
    /\ lease.owner \in Procs => lease.gen > 0
    /\ \A p \in Procs : pc[p] = "commit" /\ plan[p].fresh
            => Fits([owner |-> p, gen |-> plan[p].gen, exp |-> plan[p].exp])
    /\ \A r \in late : /\ Fits(r)
                       /\ r.gen > 0
                       /\ fence[r.owner] = NoFence
                       /\ grant[r.owner] = NoGrant

HoldInv == \A p \in Procs :
    /\ Usable(p) => Holds(p, fence[p].gen, fence[p].deadline)
    /\ grant[p] # NoGrant /\ now < Latest(p) => Holds(p, grant[p].gen, Latest(p))

CarriedInv ==
    /\ \A p \in Procs : \A g \in Carried(p) :
            /\ g <= lease.gen
            /\ g = lease.gen => lease.owner \in {p, NoOwner}
    /\ \A p, q \in Procs : p # q => Carried(p) \cap Carried(q) = {}

\* What holds of every reachable state and is preserved by every step: each
\* deadline and each pending commit is tied to the lease document it came from
\* (workerCoordinator.ts:94-120).
LeaseInv == /\ TypeOK /\ TimeInv /\ RenewInv /\ WorkInv
            /\ CommitInv /\ HoldInv /\ CarriedInv

=============================================================================
