------------------------------ MODULE PrivacyDeletion ------------------------------
(* Deletion of a passenger's account: services/privacyDeletionRequests.ts and  *)
(* privacyDeletionWorker.ts, beside the bootstrap of routes/users.ts and the   *)
(* promotion of the same account by a fleet mutation. One account: its         *)
(* identity is the time it was created. Workers are processes; the one that    *)
(* leads writes through its fence, and what it had begun before it lost the    *)
(* lead goes on until its next assertion. The fleet mutex is the one of        *)
(* FleetOperations: who holds it.                                              *)
EXTENDS Integers, FiniteSets

CONSTANTS
    Workers,
    FailureLimit,    \* PRIVACY_FAILURE_LIMIT
    MaxIdentity,     \* bound: times the account is created
    MaxTurns    \* bound: claims and recoveries of the request

\* A worker is neither a state of the mutex nor the executor of no claim.
ASSUME WorkerAssumption == Workers \cap {"free", "fleet", "nobody"} = {}

VARIABLES
    account,     \* the Auth account: identity 0 is none
    profile,     \* users/{uid} exists
    request,     \* _privacy_deletion_requests/{uid}
    leading,     \* the worker whose fence holds
    deletion,    \* the execution of each worker
    hold,        \* who holds the fleet mutex
    asking,      \* a request for deletion under way: the identity it read
    boot         \* a bootstrap under way: it saw the account

privacyVars == <<account, profile, request, leading, deletion, hold, asking, boot>>

NoRequest == [status |-> "none", phase |-> "cleaning", executor |-> "nobody", gen |-> 0,
              target |-> 0, failures |-> 0, overdue |-> FALSE]
Resting == [at |-> "idle", gen |-> 0, busy |-> FALSE, conflict |-> FALSE]
NoAccount == [identity |-> 0, operator |-> FALSE]

PrivacyInit ==
    /\ account = [identity |-> 1, operator |-> FALSE]
    /\ profile = TRUE
    /\ request = NoRequest
    /\ leading \in Workers
    /\ deletion = [w \in Workers |-> Resting]
    /\ hold = "free"
    /\ asking = 0
    /\ boot = FALSE

-----------------------------------------------------------------------------
\* The account's owner: requestPrivacyDeletion, POST /users/bootstrap.

\* passengerIdentity: an operator's account is refused.
Ask ==
    /\ asking = 0 /\ account.identity # 0 /\ ~account.operator
    /\ asking' = account.identity
    /\ UNCHANGED <<account, profile, request, leading, deletion, hold, boot>>

\* A request of another identity stays as it is; a failed one starts again.
Enqueue ==
    /\ asking # 0
    /\ asking' = 0
    /\ \/ /\ request = NoRequest
          /\ request' = [NoRequest EXCEPT !.status = "pending", !.target = asking]
       \/ /\ request # NoRequest /\ request.target \in {0, asking} /\ request.gen < MaxTurns
          /\ request' = IF request.status = "failed"
                        THEN [request EXCEPT !.status = "pending", !.phase = "cleaning", !.target = asking,
                                             !.failures = 0, !.gen = @ + 1]
                        ELSE [request EXCEPT !.target = asking]
       \/ UNCHANGED request
    /\ UNCHANGED <<account, profile, leading, deletion, hold, boot>>

BeginBootstrap ==
    /\ ~boot /\ account.identity # 0
    /\ boot' = TRUE
    /\ UNCHANGED <<account, profile, request, leading, deletion, hold, asking>>

\* The transaction reads the profile and the request, not the account.
Bootstrap ==
    /\ boot
    /\ boot' = FALSE
    /\ profile' = (profile \/ request = NoRequest)
    /\ UNCHANGED <<account, request, leading, deletion, hold, asking>>

-----------------------------------------------------------------------------
\* The worker: processRequest.

Leads(w) == leading = w
Executing(w, place) == deletion[w].at = place
Advance(w, place) == deletion' = [deletion EXCEPT ![w].at = place]
GiveUp(w, conflict) == deletion' = [deletion EXCEPT ![w].at = "unlocking", ![w].conflict = conflict]

\* The claim still stands: every write of the execution checks it.
Claimed(w) ==
    /\ request.status = "processing"
    /\ request.executor = w /\ request.gen = deletion[w].gen

ClaimRequest(w) ==
    /\ Leads(w) /\ deletion[w] = Resting
    /\ request.status = "pending" /\ request.gen < MaxTurns
    /\ request' = [request EXCEPT !.status = "processing", !.phase = "cleaning", !.executor = w,
                                  !.gen = @ + 1, !.overdue = FALSE]
    /\ deletion' = [deletion EXCEPT ![w] = [Resting EXCEPT !.at = "locking", !.gen = request.gen + 1]]
    /\ UNCHANGED <<account, profile, leading, hold, asking, boot>>

\* The fleet mutex; where it is taken the request waits.
Hold(w) ==
    /\ Executing(w, "locking")
    /\ IF Leads(w) /\ hold = "free"
       THEN hold' = w /\ Advance(w, "checking")
       ELSE deletion' = [deletion EXCEPT ![w].at = "recording", ![w].busy = TRUE] /\ UNCHANGED hold
    /\ UNCHANGED <<account, profile, request, leading, asking, boot>>

\* An account that is gone may go on; an operator's, or another identity, not.
Eligible ==
    /\ ~account.operator
    /\ account.identity # 0 /\ request.target # 0 => request.target = account.identity

\* The account as the worker reads it, then the transaction: fence and claim.
Check(w) ==
    /\ Executing(w, "checking")
    /\ IF Eligible /\ Leads(w) /\ Claimed(w)
       THEN /\ request' = [request EXCEPT !.target = IF @ = 0 THEN account.identity ELSE @]
            /\ Advance(w, "draining")
       ELSE GiveUp(w, ~Eligible \/ ~Claimed(w)) /\ UNCHANGED request
    /\ UNCHANGED <<account, profile, leading, hold, asking, boot>>

\* A page of rate limits. A full page leaves the rest to the next execution.
DrainPage(w) ==
    /\ Executing(w, "draining")
    /\ \/ Leads(w) /\ Claimed(w) /\ Advance(w, "dispatching") /\ UNCHANGED request
       \/ /\ Leads(w) /\ Claimed(w)
          /\ request' = [request EXCEPT !.status = "pending", !.failures = 0]
          /\ GiveUp(w, FALSE)
       \/ GiveUp(w, ~Claimed(w)) /\ UNCHANGED request
    /\ UNCHANGED <<account, profile, leading, hold, asking, boot>>

\* Faulty: what was checked before the pages were drained still counts.
OldEligible == TRUE

\* The account is read again before what cannot be undone.
StillEligible == Eligible

\* The profile goes first, in the transaction that records the dispatch.
Dispatch(w) ==
    /\ Executing(w, "dispatching")
    /\ IF StillEligible /\ Leads(w) /\ Claimed(w)
       THEN /\ request' = [request EXCEPT !.phase = "auth_deletion_dispatched"]
            /\ profile' = FALSE
            /\ Advance(w, "deleting")
       ELSE GiveUp(w, ~StillEligible \/ ~Claimed(w)) /\ UNCHANGED <<request, profile>>
    /\ UNCHANGED <<account, leading, hold, asking, boot>>

\* auth.deleteUser carries no fence: the worker asserts before the call.
CallDelete(w) ==
    /\ Executing(w, "deleting")
    /\ IF Leads(w) THEN Advance(w, "called") ELSE GiveUp(w, FALSE)
    /\ UNCHANGED <<account, profile, request, leading, hold, asking, boot>>

\* It deletes, or fails with or without having deleted.
DeleteAccount(w) ==
    /\ Executing(w, "called")
    /\ \/ account' = NoAccount /\ (Advance(w, "finishing") \/ GiveUp(w, FALSE))
       \/ UNCHANGED account /\ GiveUp(w, FALSE)
    /\ UNCHANGED <<profile, request, leading, hold, asking, boot>>

\* The request is deleted where the claim stands.
Finish(w) ==
    /\ Executing(w, "finishing")
    /\ request' = IF Leads(w) /\ Claimed(w) THEN NoRequest ELSE request
    /\ GiveUp(w, ~Claimed(w))
    /\ UNCHANGED <<account, profile, leading, hold, asking, boot>>

\* The mutex is given back before the failure is recorded; or stays behind.
Unhold(w) ==
    /\ Executing(w, "unlocking")
    /\ hold' \in {hold, IF hold = w THEN "free" ELSE hold}
    /\ IF Claimed(w) THEN Advance(w, "recording") ELSE deletion' = [deletion EXCEPT ![w] = Resting]
    /\ UNCHANGED <<account, profile, request, leading, asking, boot>>

\* A retry, or the end of them: a conflict is permanent, a taken mutex no failure.
RecordFailure(w) ==
    /\ Executing(w, "recording")
    /\ LET failures == request.failures + (IF deletion[w].busy THEN 0 ELSE 1)
           ends == deletion[w].conflict \/ failures >= FailureLimit
       IN request' = IF Leads(w) /\ Claimed(w)
                     THEN [request EXCEPT !.status = IF ends THEN "failed" ELSE "pending",
                                          !.failures = failures]
                     ELSE request
    /\ deletion' = [deletion EXCEPT ![w] = Resting]
    /\ UNCHANGED <<account, profile, leading, hold, asking, boot>>

-----------------------------------------------------------------------------
\* Others: the leader's lease, administrators, the fleet.

Lead(w) ==
    /\ leading # w
    /\ leading' = w
    /\ UNCHANGED <<account, profile, request, deletion, hold, asking, boot>>

\* A process is gone and replaced; only a call to Auth under way goes on.
Restart(w) ==
    /\ deletion[w] # Resting /\ deletion[w].at # "called"
    /\ deletion' = [deletion EXCEPT ![w] = Resting]
    /\ UNCHANGED <<account, profile, request, leading, hold, asking, boot>>

Overdue ==
    /\ request.status = "processing" /\ ~request.overdue
    /\ request' = [request EXCEPT !.overdue = TRUE]
    /\ UNCHANGED <<account, profile, leading, deletion, hold, asking, boot>>

\* recoverPrivacyDeletion: the executor is attested to have stopped.
RecoverRequest ==
    /\ request.gen < MaxTurns
    /\ request.status = "failed" \/ (request.status = "processing" /\ request.overdue)
    /\ request.status = "processing" => deletion[request.executor] = Resting
    /\ request' = [request EXCEPT !.status = "pending", !.gen = @ + 1, !.failures = 0]
    /\ UNCHANGED <<account, profile, leading, deletion, hold, asking, boot>>

\* recoverFleetLock of a worker's mutex: its request no longer executes.
RecoverHold ==
    /\ hold \in Workers
    /\ deletion[hold].at \in {"idle", "recording"} /\ request.status # "processing"
    /\ hold' = "free"
    /\ UNCHANGED <<account, profile, request, leading, deletion, asking, boot>>

\* Faulty: the promotion takes no mutex.
NoExclusion == TRUE

MutexFree == hold = "free"

\* PUT /drivers: the account exists, and is an operator's in the end.
BeginPromotion ==
    /\ MutexFree /\ account.identity # 0
    /\ hold' = "fleet"
    /\ UNCHANGED <<account, profile, request, leading, deletion, asking, boot>>

Promote ==
    /\ hold = "fleet"
    /\ hold' = "free"
    /\ \/ account.identity # 0 /\ account' = [account EXCEPT !.operator = ~@]
       \/ UNCHANGED account
    /\ UNCHANGED <<profile, request, leading, deletion, asking, boot>>

\* The account is created again under its name; not while it is being deleted.
Recreate ==
    /\ account.identity < MaxIdentity
    /\ \A w \in Workers : deletion[w].at \notin {"deleting", "called", "dispatching"}
    /\ \E i \in (account.identity + 1)..MaxIdentity : account' = [identity |-> i, operator |-> FALSE]
    /\ UNCHANGED <<profile, request, leading, deletion, hold, asking, boot>>

WorkerStep(w) ==
    \/ ClaimRequest(w) \/ Hold(w) \/ Check(w) \/ DrainPage(w) \/ Dispatch(w) \/ CallDelete(w)
    \/ DeleteAccount(w) \/ Finish(w) \/ Unhold(w) \/ RecordFailure(w) \/ Lead(w) \/ Restart(w)

PrivacyNext ==
    \/ Ask \/ Enqueue \/ BeginBootstrap \/ Bootstrap
    \/ \E w \in Workers : WorkerStep(w)
    \/ Overdue \/ RecoverRequest \/ RecoverHold
    \/ BeginPromotion \/ Promote \/ Recreate

PrivacySpec == PrivacyInit /\ [][PrivacyNext]_privacyVars

-----------------------------------------------------------------------------
\* Properties.

\* The account that is deleted is no operator's and the one that asked, however
\* the request was claimed, retried, recovered or taken over
\* (privacyDeletionWorker.ts:63).
OnlyTheAskingAccount ==
    [][account.identity # 0 /\ account' = NoAccount =>
          ~account.operator /\ request.target = account.identity]_privacyVars
=============================================================================
