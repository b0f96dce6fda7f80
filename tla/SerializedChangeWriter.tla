----------------------- MODULE SerializedChangeWriter -----------------------
(***************************************************************************)
(* SerializedChangeWriter of backend/src/services/serializedChangeWriter.ts *)
(* on top of the keyed executor: the lifecycle writes of                   *)
(* backend/src/services/tripStateEngine.ts go through it, one key per      *)
(* document, and repeated states are skipped by their fingerprint.         *)
(*                                                                         *)
(* A write lands in Firestore while it runs.  It may fail after it landed, *)
(* and it may decline to write (the ownership lock belongs to another      *)
(* session), in which case its caller calls retry.                         *)
(***************************************************************************)
EXTENDS KeyedExecutor

CONSTANTS
    Prints,     \* fingerprints
    NoPrint

ASSUME PrintAssumption == NoPrint \notin Prints

VARIABLES
    print,      \* fingerprints map: the last enqueued state not known to be lost
    queues,     \* queues map: the last enqueued task, 0 for none
    content,    \* what each task writes
    landed,     \* tasks whose write is in Firestore
    storedBy,   \* the task that wrote each document last, 0 for none
    noticed     \* settled tasks whose then() handlers have run

writerVars == <<execVars, print, queues, content, landed, storedBy, noticed>>

WriterTypeOK ==
    /\ print \in [Keys -> Prints \union {NoPrint}]
    /\ queues \in [Keys -> {0} \union Tasks]
    /\ content \in [Tasks -> Prints \union {NoPrint}]
    /\ landed \subseteq Tasks
    /\ storedBy \in [Keys -> {0} \union Tasks]
    /\ noticed \subseteq Tasks

WriterInit ==
    /\ ExecInit
    /\ print = [k \in Keys |-> NoPrint]
    /\ queues = [k \in Keys |-> 0]
    /\ content = [t \in Tasks |-> NoPrint]
    /\ landed = {}
    /\ storedBy = [k \in Keys |-> 0]
    /\ noticed = {}

\* enqueue, of a state the key's fingerprint does not already stand for.  An
\* executor at its limits throws before anything is recorded.
Enqueue(k, v) ==
    /\ print[k] # v
    /\ Run(k)
    /\ print' = [print EXCEPT ![k] = v]
    /\ queues' = [queues EXCEPT ![k] = admitted + 1]
    /\ content' = [content EXCEPT ![admitted + 1] = v]
    /\ UNCHANGED <<landed, storedBy, noticed>>

\* The write's transaction commits.
Land(t) ==
    /\ ~pumping
    /\ stage[t] = "running" /\ t \notin landed
    /\ landed' = landed \union {t}
    /\ storedBy' = [storedBy EXCEPT ![key[t]] = t]
    /\ UNCHANGED <<execVars, print, queues, content, noticed>>

\* Faulty: the fingerprint outlives a write that failed or declined.
KeepPrint(t) == UNCHANGED print

\* The rejection handler and retry: the same state may be written again.
ForgetIfLost(t) ==
    IF print[key[t]] = content[t] /\ (stage[t] # "done" \/ t \notin landed)
    THEN print' = [print EXCEPT ![key[t]] = NoPrint]
    ELSE UNCHANGED print

\* Faulty: a settled write also drops a newer one's entry.
DropQueue(t) == queues' = [queues EXCEPT ![key[t]] = 0]

\* The entry of a newer write stays.
LeaveQueue(t) ==
    queues' = IF queues[key[t]] = t THEN [queues EXCEPT ![key[t]] = 0] ELSE queues

\* The handlers of the promise that enqueue returned.
Notice(t) ==
    /\ ~pumping
    /\ stage[t] \in Settled /\ t \notin noticed
    /\ noticed' = noticed \union {t}
    /\ ForgetIfLost(t)
    /\ LeaveQueue(t)
    /\ UNCHANGED <<execVars, content, landed, storedBy>>

\* forgetFingerprint, invalidate, clear, or an eviction from the LRU map.
Forget(k) ==
    /\ ~pumping
    /\ print[k] # NoPrint
    /\ print' = [print EXCEPT ![k] = NoPrint]
    /\ UNCHANGED <<execVars, queues, content, landed, storedBy, noticed>>

\* What the executor does on its own.
Execute ==
    /\ Dispatch \/ PumpEnds \/ \E t \in Tasks : TaskStep(t)
    /\ UNCHANGED <<print, queues, content, landed, storedBy, noticed>>

WriterNext ==
    \/ \E k \in Keys, v \in Prints : Enqueue(k, v)
    \/ \E t \in Tasks : Land(t) \/ Notice(t)
    \/ \E k \in Keys : Forget(k)
    \/ Execute

WriterSpec == WriterInit /\ [][WriterNext]_writerVars

-----------------------------------------------------------------------------
\* Properties.

\* A skipped write loses nothing: the state is stored, or it is what the
\* promise handed to the caller stands for (serializedChangeWriter.ts:48-50).
SkipLosesNothing ==
    \A k \in Keys : print[k] # NoPrint =>
        IF queues[k] = 0
        THEN storedBy[k] # 0 /\ content[storedBy[k]] = print[k]
        ELSE content[queues[k]] = print[k]

\* "An older transition can never finish after a newer one and overwrite it"
\* (serializedChangeWriter.ts:11), with failures, expiries and refused work; and
\* no step loses what a fingerprint stands for (43-72).
NewestIsKept ==
    [][SkipLosesNothing' /\ \A k \in Keys : storedBy'[k] >= storedBy[k]]_writerVars

\* The inductive invariant: a fingerprint stands for the newest task of its
\* key, and no older task can still write (serializedChangeWriter.ts:43-72).
WriterInv ==
    /\ ExecInv /\ InOrder /\ WriterTypeOK
    /\ \A k \in Keys : queues[k] # 0 => /\ stage[queues[k]] # "new"
                                        /\ key[queues[k]] = k
                                        /\ queues[k] \notin noticed
    /\ \A k \in Keys : storedBy[k] # 0 => storedBy[k] \in landed /\ key[storedBy[k]] = k
    /\ \A t \in landed : stage[t] \in {"running", "done", "failed"} /\ t <= storedBy[key[t]]
    /\ \A t \in noticed : stage[t] \in Settled
    /\ \A k \in Keys, t \in Tasks :
        print[k] # NoPrint /\ stage[t] # "new" /\ key[t] = k /\ (\A u \in Tasks : stage[u] # "new" /\ key[u] = k => u <= t)
        => /\ content[t] = print[k]
           /\ queues[k] = t \/ (queues[k] = 0 /\ t \in noticed /\ t \in landed)
    /\ SkipLosesNothing

=============================================================================
