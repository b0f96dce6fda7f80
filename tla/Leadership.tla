---------------------------- MODULE Leadership ----------------------------
(***************************************************************************)
(* What the election of the background worker promises its users, with     *)
(* clocks, renewals and messages left out: backend/src/services/           *)
(* workerCoordinator.ts as seen from backend/src/lib/workerFence.ts.       *)
(* WorkerLease is shown to implement this specification.                   *)
(***************************************************************************)
EXTENDS Naturals

CONSTANTS
    Procs,      \* owner ids
    NoOwner     \* the null owner of a released lease

VARIABLES
    holder,     \* ownerId of the lease document
    generation, \* generation of the lease document
    fence,      \* generation of each process's unrevoked fence, 0 for none
    usable      \* the fence passes assert()

leaderVars == <<holder, generation, fence, usable>>

LeaderInit ==
    /\ holder = NoOwner
    /\ generation = 0
    /\ fence = [p \in Procs |-> 0]
    /\ usable = [p \in Procs |-> FALSE]

\* The lease is acquired; nobody may act under an earlier acquisition.
Take(p) ==
    /\ \A q \in Procs : ~usable[q]
    /\ holder' = p
    /\ generation' = generation + 1
    /\ UNCHANGED <<fence, usable>>

\* The process that holds the lease starts its workers under a new fence.
Admit(p) ==
    /\ holder = p
    /\ fence[p] = 0
    /\ fence' = [fence EXCEPT ![p] = generation]
    /\ usable' = [usable EXCEPT ![p] = TRUE]
    /\ UNCHANGED <<holder, generation>>

\* Deadlines of the fences of ps pass.
Lapse(ps) ==
    /\ usable' = [p \in Procs |-> usable[p] /\ p \notin ps]
    /\ UNCHANGED <<holder, generation, fence>>

\* A fence is revoked, by its timer, a failed renewal, shutdown or a crash.
Revoke(p) ==
    /\ fence' = [fence EXCEPT ![p] = 0]
    /\ usable' = [usable EXCEPT ![p] = FALSE]
    /\ UNCHANGED <<holder, generation>>

\* Orderly shutdown gives the lease back and keeps its generation.
Release(p) ==
    /\ holder = p
    /\ fence[p] = 0
    /\ holder' = NoOwner
    /\ UNCHANGED <<generation, fence, usable>>

LeaderNext ==
    \/ \E p \in Procs : Take(p) \/ Admit(p) \/ Revoke(p) \/ Release(p)
    \/ \E ps \in SUBSET Procs : Lapse(ps)

LeaderSpec == LeaderInit /\ [][LeaderNext]_leaderVars
=============================================================================
