---------------------------- MODULE WorkerFence ----------------------------
(***************************************************************************)
(* Fenced writes of the background workers: workerTransaction and          *)
(* workerRtdbTransaction of backend/src/lib/workerFence.ts, over the       *)
(* election as Leadership specifies it.  Each process runs at most one     *)
(* fenced operation at a time here; two processes give every interleaving  *)
(* of an old leader's writes with a new leader's.                          *)
(*                                                                         *)
(* A Firestore transaction reads the lease document, so its commit fails   *)
(* once the lease was written.  The Realtime Database only compares the    *)
(* value of the node: its commit applies when the node still has the value *)
(* the update callback was given.                                          *)
(***************************************************************************)
EXTENDS Leadership

CONSTANTS
    Payloads,       \* what the node holds besides _workerGeneration
    MaxGeneration   \* bound of the model: acquisitions of the lease

ASSUME PayloadAssumption == "absent" \notin Payloads

VARIABLES
    job,        \* the fenced operation of each process
    committed,  \* generation of the last fenced Firestore commit
    node        \* one RTDB record: [gen, data], or NoNode

fenceVars == <<leaderVars, job, committed, node>>

NoNode == [gen |-> 0, data |-> "absent"]
NodeValues == {NoNode} \union [gen : Nat, data : Payloads]

\* bound: the operation's fence is still the coordinator's, not revoked.
\* fresh: the lease was not written since the transaction read it.
\* seen and next: the RTDB value read, and the one to be written.
NoJob == [pc |-> "none", gen |-> 0, bound |-> FALSE, fresh |-> FALSE,
          seen |-> NoNode, next |-> NoNode]

Jobs == [pc : {"none", "fsCallback", "fsSent", "rtCallback", "rtSent"},
         gen : Nat, bound : BOOLEAN, fresh : BOOLEAN,
         seen : NodeValues, next : NodeValues]

FenceTypeOK ==
    /\ holder \in Procs \union {NoOwner}
    /\ generation \in Nat
    /\ fence \in [Procs -> Nat]
    /\ usable \in [Procs -> BOOLEAN]
    /\ job \in [Procs -> Jobs]
    /\ committed \in Nat
    /\ node \in NodeValues

FenceInit ==
    /\ LeaderInit
    /\ job = [p \in Procs |-> NoJob]
    /\ committed = 0
    /\ node = NoNode

-----------------------------------------------------------------------------
\* assert() of the fence the operation captured in its async context.
JobMayRun(p) == job[p].bound /\ usable[p]

Abandon(p) == job' = [job EXCEPT ![p] = NoJob]

\* fence.assert() before the store is called, on behalf of a running worker.
Begin(p, step) ==
    /\ job[p] = NoJob
    /\ usable[p]
    /\ job' = [job EXCEPT ![p] = [NoJob EXCEPT !.pc = step, !.gen = fence[p], !.bound = TRUE]]
    /\ UNCHANGED <<leaderVars, committed, node>>

FsBegin(p) == Begin(p, "fsCallback")

\* assert; read the lease; assert; run the caller's callback.  The lease must
\* name this owner and generation; its recorded expiry may also be too near
\* for this process's clock.
FsRead(p) ==
    /\ job[p].pc = "fsCallback" /\ ~job[p].fresh
    /\ \/ /\ JobMayRun(p)
          /\ holder = p /\ generation = job[p].gen
          /\ job' = [job EXCEPT ![p] = [@ EXCEPT !.fresh = TRUE]]
       \/ Abandon(p)
    /\ UNCHANGED <<leaderVars, committed, node>>

\* assert after the callback, then the commit request leaves the process.
FsSend(p) ==
    /\ job[p].pc = "fsCallback" /\ job[p].fresh
    /\ IF JobMayRun(p) THEN job' = [job EXCEPT ![p] = [@ EXCEPT !.pc = "fsSent"]]
                       ELSE Abandon(p)
    /\ UNCHANGED <<leaderVars, committed, node>>

\* Faulty: the lease is not in the transaction's read set.
UnfencedCommit(p) ==
    /\ job[p].pc = "fsSent"
    /\ committed' = job[p].gen
    /\ Abandon(p)
    /\ UNCHANGED <<leaderVars, node>>

\* Firestore applies the commit or has the callback retried.
FsCommit(p) ==
    /\ job[p].pc = "fsSent"
    /\ \/ /\ job[p].fresh
          /\ committed' = job[p].gen
          /\ Abandon(p)
       \/ /\ ~job[p].fresh
          /\ job' = [job EXCEPT ![p] = [@ EXCEPT !.pc = "fsCallback"]]
          /\ UNCHANGED committed
    /\ UNCHANGED <<leaderVars, node>>

-----------------------------------------------------------------------------
RtBegin(p) == Begin(p, "rtCallback")

\* A higher _workerGeneration in the node makes the callback return undefined.
Superseded(p) == node.gen > job[p].gen

\* Faulty: the write keeps the record's generation instead of stamping its own.
UnstampedCallback(p) ==
    /\ job[p].pc = "rtCallback"
    /\ JobMayRun(p) /\ ~Superseded(p)
    /\ \E next \in {NoNode} \union [gen : {node.gen}, data : Payloads] :
            job' = [job EXCEPT ![p] = [@ EXCEPT !.pc = "rtSent", !.seen = node, !.next = next]]
    /\ UNCHANGED <<leaderVars, committed, node>>

\* The update callback: assert, generation check, the caller's update, which
\* writes a payload or deletes the node (null carries no generation).
RtCallback(p) ==
    /\ job[p].pc = "rtCallback"
    /\ \/ /\ ~JobMayRun(p) \/ Superseded(p)
          /\ Abandon(p)
       \/ /\ JobMayRun(p) /\ ~Superseded(p)
          /\ \E next \in {NoNode} \union [gen : {job[p].gen}, data : Payloads] :
                job' = [job EXCEPT ![p] = [@ EXCEPT !.pc = "rtSent", !.seen = node, !.next = next]]
    /\ UNCHANGED <<leaderVars, committed, node>>

\* Faulty: the write is a plain set, not a compare-and-set.
BlindSet(p) ==
    /\ job[p].pc = "rtSent"
    /\ node' = job[p].next
    /\ Abandon(p)
    /\ UNCHANGED <<leaderVars, committed>>

\* The database applies the write or has the callback retried.
RtCommit(p) ==
    /\ job[p].pc = "rtSent"
    /\ \/ /\ node = job[p].seen
          /\ node' = job[p].next
          /\ Abandon(p)
       \/ /\ node # job[p].seen
          /\ job' = [job EXCEPT ![p] = [@ EXCEPT !.pc = "rtCallback", !.seen = NoNode,
                                                !.next = NoNode]]
          /\ UNCHANGED node
    /\ UNCHANGED <<leaderVars, committed>>

\* A sent operation is lost.
SentFails(p) ==
    /\ job[p].pc \in {"fsSent", "rtSent"}
    /\ Abandon(p)
    /\ UNCHANGED <<leaderVars, committed, node>>

\* Device ingestion writes the node without a fence and keeps its unknown
\* fields, the generation among them (nextTelemetryValue).
Telemetry ==
    /\ \E d \in Payloads : node' = [node EXCEPT !.data = d]
    /\ UNCHANGED <<leaderVars, job, committed>>

\* Revoking a fence unbinds its operation; an operation not yet sent can then
\* only be abandoned, which is also all that a crash leaves of it.
UnbindRevoked == job' = [p \in Procs |-> [job[p] EXCEPT !.bound = @ /\ fence'[p] # 0]]

FenceStep ==
    /\ \/ \E p \in Procs : Admit(p) \/ Revoke(p)
       \/ \E ps \in SUBSET Procs : Lapse(ps)
    /\ UnbindRevoked
    /\ UNCHANGED <<committed, node>>

\* Faulty: the lease is read outside the transaction.
UntrackedRead(j) == j

\* The transaction itself reads the lease: writing the lease outdates it.
TrackedRead(j) == [j EXCEPT !.fresh = FALSE]

\* Every write of the lease document, renewals included, makes what
\* transactions have read of it stale.
LeaseWrite ==
    /\ \/ \E p \in Procs : generation < MaxGeneration /\ Take(p)
       \/ \E p \in Procs : Release(p)
       \/ holder # NoOwner /\ UNCHANGED leaderVars
    /\ job' = [p \in Procs |-> TrackedRead(job[p])]
    /\ UNCHANGED <<committed, node>>

JobStep(p) ==
    \/ FsBegin(p) \/ FsRead(p) \/ FsSend(p) \/ FsCommit(p)
    \/ RtBegin(p) \/ RtCallback(p) \/ RtCommit(p) \/ SentFails(p)

FenceNext ==
    \/ FenceStep
    \/ LeaseWrite
    \/ \E p \in Procs : JobStep(p)
    \/ Telemetry

FenceSpec == FenceInit /\ [][FenceNext]_fenceVars

-----------------------------------------------------------------------------
\* Properties.

\* Fenced Firestore commits are ordered by generation: after a new leader's
\* first commit no transaction of an earlier leader is applied, however long
\* its commit request was under way ("takeover conflicts at commit",
\* workerFence.ts:42).
CommitsFollowGenerations == [][committed' >= committed]_fenceVars

\* No write lowers the generation of an RTDB record that stays in place
\* (workerFence.ts:78-82); only a deletion forgets it.
RecordNeverRegresses ==
    [][node # NoNode /\ node' # NoNode => node'.gen >= node.gen]_fenceVars

\* Both: in either store, what a deposed worker had begun is never written over
\* its successor's (workerFence.ts:57, 83).
FencedWritesInOrder == CommitsFollowGenerations /\ RecordNeverRegresses

\* A transaction past its callback that can still commit belongs to the
\* generation the lease document names, whatever became of its fence.
CommittableIsCurrent ==
    \A p \in Procs : job[p].pc = "fsSent" /\ job[p].fresh
        => holder = p /\ generation = job[p].gen

\* The inductive invariant behind them: what was read of the lease and not
\* written since still holds, and a sent RTDB write replaces no newer record.
JobInv(p, j) ==
    /\ j.fresh => holder = p /\ generation = j.gen
    /\ j.seen.gen <= j.gen
    /\ j.next = NoNode \/ j.next.gen = j.gen

FenceInv ==
    /\ FenceTypeOK
    /\ committed <= generation
    /\ \A p \in Procs : JobInv(p, job[p])

=============================================================================
