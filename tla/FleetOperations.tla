------------------------------ MODULE FleetOperations ------------------------------
(* Administrative operations that outlive their request, and the fleet mutex:  *)
(* services/httpOperations.ts and services/fleetMutationLock.ts, with the      *)
(* reconciliation jobs of routes/fleet.ts as the operation and its fleet       *)
(* mutations as work without a record. A server is one process, known by its   *)
(* OPERATION_EXECUTOR_ID: it never comes back under that name. Each runs one   *)
(* task here, beside the requests of administrators it answers.                *)
EXTENDS Integers

CONSTANTS
    Servers,
    Keys,        \* idempotency keys of jobs
    MaxOwners    \* bound: owner tokens drawn, one for each use of the mutex

VARIABLES
    server,      \* "up", "draining" or "down", of each process
    task,        \* what each process executes
    record,      \* the durable operation of each key
    mutex,       \* _fleet_reconciliation_locks/singleton
    owners,      \* owner tokens drawn so far
    form         \* the mutex as an administrator last saw it

operationVars == <<server, task, record, mutex, owners, form>>

NoKey == "none"
NoMutex == [owner |-> 0, executor |-> "nobody", key |-> NoKey]
NoOperation == [status |-> "missing", phase |-> "none", executor |-> "nobody",
                generation |-> 0, expired |-> FALSE]

\* current: the caller still waits (isCurrent). owner: the token of its mutex.
\* sent: the request of this step left the process before it stopped.
Idle == [at |-> "idle", key |-> NoKey, current |-> FALSE, owner |-> 0, good |-> TRUE, sent |-> FALSE]

Settled(k) == record[k].status \in {"succeeded", "failed"}

\* localExecutions and fleetLockOwners of the process that answers.
ExecutesLocally(s, k) ==
    task[s].key = k /\ task[s].at \in {"claimed", "locking", "creating", "working", "unlocking", "settling"}
OwnsLocally(s, owner) ==
    owner # 0 /\ task[s].owner = owner

OperationInit ==
    /\ server = [s \in Servers |-> "up"]
    /\ task = [s \in Servers |-> Idle]
    /\ record = [k \in Keys |-> NoOperation]
    /\ mutex = NoMutex
    /\ owners = 0
    /\ form = NoMutex

Running(s) == server[s] # "down"
At(s, place) == Running(s) /\ task[s].at = place
Goes(s, place) == task' = [task EXCEPT ![s].at = place]
Fails(s, place) == task' = [task EXCEPT ![s].at = place, ![s].good = FALSE]
Ends(s) == task' = [task EXCEPT ![s] = Idle]

\* After the mutex: a job writes its outcome, a mutation is done.
Leaves(s, good) ==
    task' = [task EXCEPT ![s] = IF @.key = NoKey THEN Idle
                                ELSE [@ EXCEPT !.at = "settling", !.owner = 0, !.good = task[s].good /\ good]]

-----------------------------------------------------------------------------
\* Writes of a record.

\* Faulty: any write of the executor that claimed the key is taken.
ClaimedOnly(s, k) == record[k].executor = s

\* The transaction every checkpoint and outcome goes through.
Owned(s, k) ==
    /\ record[k].status = "processing"
    /\ record[k].executor = s /\ record[k].generation = 1

Checkpoint(s, k, phase) == record' = [record EXCEPT ![k].phase = phase]

\* The claim: created only where no record is.
Claims(s, k) ==
    record' = [record EXCEPT ![k] =
        [status |-> "processing", phase |-> "claimed", executor |-> s, generation |-> 1, expired |-> FALSE]]

Outcome(k, status, phase) ==
    record' = [record EXCEPT ![k].status = status, ![k].phase = phase]

-----------------------------------------------------------------------------
\* A job: submitOperation, admitOperation.

\* Nothing is recorded under the key: the execution is queued.
Submit(s, k) ==
    /\ server[s] = "up" /\ task[s] = Idle
    /\ record[k] = NoOperation
    /\ task' = [task EXCEPT ![s] = [Idle EXCEPT !.at = "queued", !.key = k, !.current = TRUE]]
    /\ UNCHANGED <<server, record, mutex, owners, form>>

\* Three seconds pass and the caller is answered without a result.
CallerLeaves(s) ==
    /\ Running(s) /\ task[s].current
    /\ task[s].at \in {"queued", "claiming", "claimed"}
    /\ task' = [task EXCEPT ![s].current = FALSE]
    /\ UNCHANGED <<server, record, mutex, owners, form>>

Dequeue(s) ==
    /\ At(s, "queued")
    /\ IF task[s].current THEN Goes(s, "claiming") ELSE Ends(s)
    /\ UNCHANGED <<server, record, mutex, owners, form>>

\* The claim's transaction finds a record, finds that the caller left, or
\* creates it; what it created may not be acknowledged.
Claim(s) ==
    /\ At(s, "claiming")
    /\ LET k == task[s].key IN
       IF record[k] # NoOperation \/ ~task[s].current
       THEN Ends(s) /\ UNCHANGED record
       ELSE Claims(s, k) /\ (Goes(s, "claimed") \/ Ends(s))
    /\ UNCHANGED <<server, mutex, owners, form>>

\* A late acknowledgement starts nothing; else the first checkpoint. A lost
\* record, or a budget used up, is an error of the execution.
Launch(s) ==
    /\ At(s, "claimed")
    /\ LET k == task[s].key IN
       \/ /\ ~task[s].current
          /\ IF Owned(s, k) THEN Outcome(k, "failed", "not_started") ELSE UNCHANGED record
          /\ Ends(s)
       \/ /\ task[s].current /\ Owned(s, k)
          /\ Checkpoint(s, k, "executing") /\ Goes(s, "locking")
       \/ /\ task[s].current
          /\ Fails(s, "settling") /\ UNCHANGED record
    /\ UNCHANGED <<server, mutex, owners, form>>

\* The outcome; it may fail to be written, or to be acknowledged.
Settle(s) ==
    /\ At(s, "settling")
    /\ LET k == task[s].key IN
       \/ /\ Owned(s, k)
          /\ Outcome(k, IF task[s].good THEN "succeeded" ELSE "failed", "completed")
       \/ UNCHANGED record
    /\ Ends(s)
    /\ UNCHANGED <<server, mutex, owners, form>>

-----------------------------------------------------------------------------
\* The mutex: withFleetLock.

\* A fleet mutation goes to the mutex without a record.
Mutate(s) ==
    /\ server[s] = "up" /\ task[s] = Idle
    /\ owners < MaxOwners
    /\ owners' = owners + 1
    /\ task' = [task EXCEPT ![s] = [Idle EXCEPT !.at = "creating", !.owner = owners + 1]]
    /\ UNCHANGED <<server, record, mutex, form>>

\* A job draws its token and records that it waits for the mutex.
RecordLocking(s) ==
    /\ At(s, "locking")
    /\ owners < MaxOwners
    /\ LET k == task[s].key IN
       \/ /\ Owned(s, k)
          /\ Checkpoint(s, k, "locking")
          /\ owners' = owners + 1
          /\ task' = [task EXCEPT ![s].at = "creating", ![s].owner = owners + 1]
       \/ /\ Fails(s, "settling")
          /\ UNCHANGED <<record, owners>>
    /\ UNCHANGED <<server, mutex, form>>

CreateMutex(s) ==
    /\ mutex = NoMutex
    /\ mutex' = [owner |-> task[s].owner, executor |-> s, key |-> task[s].key]

\* Created and acknowledged; created without an answer, or not at all.
Lock(s) ==
    /\ At(s, "creating")
    /\ \/ CreateMutex(s) /\ Goes(s, "working")
       \/ CreateMutex(s) /\ Leaves(s, FALSE)
       \/ UNCHANGED mutex /\ Leaves(s, FALSE)
    /\ UNCHANGED <<server, record, owners, form>>

\* A batch of drivers; a job records it before and after.
Work(s) ==
    /\ At(s, "working")
    /\ \/ /\ task[s].key # NoKey /\ Owned(s, task[s].key)
          /\ Checkpoint(s, task[s].key, "authorizing")
          /\ UNCHANGED task
       \/ UNCHANGED record /\ Goes(s, "unlocking")
       \/ UNCHANGED record /\ Fails(s, "unlocking")
    /\ UNCHANGED <<server, mutex, owners, form>>

\* Deleted where the token is still this task's; or the transaction fails.
DeleteMutex(s) ==
    mutex' = IF mutex.owner = task[s].owner THEN NoMutex ELSE mutex

Unlock(s) ==
    /\ At(s, "unlocking")
    /\ \/ DeleteMutex(s) /\ Leaves(s, TRUE)
       \/ UNCHANGED mutex /\ Leaves(s, FALSE)
    /\ UNCHANGED <<server, record, owners, form>>

-----------------------------------------------------------------------------
\* Processes and time.

Drain(s) ==
    /\ server[s] = "up"
    /\ server' = [server EXCEPT ![s] = "draining"]
    /\ UNCHANGED <<task, record, mutex, owners, form>>

\* A drained process exits; any process may be killed, with the write of its
\* step already under way.
Stop(s) ==
    /\ \/ server[s] = "draining" /\ task[s] = Idle /\ UNCHANGED task
       \/ Running(s) /\ \E sent \in BOOLEAN : task' = [task EXCEPT ![s].sent = sent]
    /\ server' = [server EXCEPT ![s] = "down"]
    /\ UNCHANGED <<record, mutex, owners, form>>

\* The write of a process that is gone.
LateWrite(s) ==
    /\ ~Running(s) /\ task[s].sent
    /\ LET k == task[s].key IN
       \/ /\ task[s].at = "claiming" /\ record[k] = NoOperation
          /\ Claims(s, k) /\ UNCHANGED mutex
       \/ /\ task[s].at = "creating" /\ CreateMutex(s) /\ UNCHANGED record
       \/ /\ task[s].at = "unlocking" /\ DeleteMutex(s) /\ UNCHANGED record
       \/ /\ task[s].at = "settling" /\ Owned(s, k)
          /\ Outcome(k, IF task[s].good THEN "succeeded" ELSE "failed", "completed")
          /\ UNCHANGED mutex
    /\ task' = [task EXCEPT ![s].sent = FALSE]
    /\ UNCHANGED <<server, owners, form>>

\* deadlineAt passes.
Expire(k) ==
    /\ record[k].status = "processing" /\ ~record[k].expired
    /\ record' = [record EXCEPT ![k].expired = TRUE]
    /\ UNCHANGED <<server, task, mutex, owners, form>>

-----------------------------------------------------------------------------
\* Administrators. They attest that an executor stopped: of another process
\* that is true, and of its own work the process that answers decides.
Attested(s, executor) == s = executor \/ server[executor] = "down"

\* readRawOperation classifies an expired record nobody here executes.
ReadOperation(s, k) ==
    /\ server[s] = "up"
    /\ record[k].status = "processing" /\ record[k].expired
    /\ record[k].phase # "recovery_required" /\ ~ExecutesLocally(s, k)
    /\ Checkpoint(s, k, "recovery_required")
    /\ UNCHANGED <<server, task, mutex, owners, form>>

\* recoverOperation: abandoned, never replayed.
RecoverOperation(s, k) ==
    /\ server[s] = "up"
    /\ record[k].status = "processing" /\ record[k].expired
    /\ Attested(s, record[k].executor) /\ ~ExecutesLocally(s, k)
    /\ record' = [record EXCEPT ![k].status = "failed", ![k].phase = "recovered",
                                ![k].generation = @ + 1]
    /\ UNCHANGED <<server, task, mutex, owners, form>>

\* readFleetLock.
SeeMutex(s) ==
    /\ server[s] = "up"
    /\ mutex # NoMutex /\ mutex # form
    /\ form' = mutex
    /\ UNCHANGED <<server, task, record, mutex, owners>>

\* Faulty: the mutex is released whoever owns it by now.
AnyIdentity(s) == form # NoMutex /\ mutex # NoMutex /\ ~OwnsLocally(s, form.owner)

\* The owner seen is still the owner, and no work of this process.
Identity(s) ==
    /\ form # NoMutex /\ mutex # NoMutex
    /\ mutex.owner = form.owner /\ ~OwnsLocally(s, form.owner)

\* recoverFleetLock: the linked operation is settled or unknown first.
RecoverMutex(s) ==
    /\ server[s] = "up"
    /\ Identity(s)
    /\ Attested(s, form.executor)
    /\ mutex.key # NoKey =>
          /\ Settled(mutex.key) \/ record[mutex.key] = NoOperation
          /\ ~ExecutesLocally(s, mutex.key)
    /\ mutex' = NoMutex /\ form' = NoMutex
    /\ UNCHANGED <<server, task, record, owners>>

-----------------------------------------------------------------------------
TaskStep(s) ==
    \/ CallerLeaves(s) \/ Dequeue(s) \/ Claim(s) \/ Launch(s) \/ Settle(s)
    \/ Mutate(s) \/ RecordLocking(s) \/ Lock(s) \/ Work(s) \/ Unlock(s)

ServerStep(s) ==
    \/ Drain(s) \/ Stop(s) \/ LateWrite(s) \/ SeeMutex(s) \/ RecoverMutex(s)

OperationNext ==
    \/ \E s \in Servers : TaskStep(s) \/ ServerStep(s)
    \/ \E s \in Servers, k \in Keys : Submit(s, k) \/ ReadOperation(s, k) \/ RecoverOperation(s, k)
    \/ \E k \in Keys : Expire(k)

OperationSpec == OperationInit /\ [][OperationNext]_operationVars

-----------------------------------------------------------------------------
\* Properties.

\* Two processes are never inside fleet work together, whatever was recovered,
\* stopped or acknowledged late ("every fleet Auth-changing path shares the
\* same durable mutex", fleetMutationLock.ts:12).
FleetMutex ==
    \A s, t \in Servers : At(s, "working") /\ At(t, "working") => s = t

\* The outcome of an operation is written once: after it, neither the executor
\* that comes back to it nor an administrator changes the record ("outcome
\* writes conflict with an operator recovery generation", httpOperations.ts:82).
SettledStays ==
    \A k \in Keys : Settled(k) => record'[k] = record[k]

\* Both: what an administrator recovers is neither done twice at a time nor
\* answered twice (httpOperations.ts:230, 261).
RecoveryIsSafe == [][FleetMutex' /\ SettledStays]_operationVars
=============================================================================
