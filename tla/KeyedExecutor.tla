--------------------------- MODULE KeyedExecutor ---------------------------
(***************************************************************************)
(* BoundedKeyedExecutor of backend/src/lib/boundedKeyedExecutor.ts, which  *)
(* every queue of the backend is built on: work runs in order per key,     *)
(* under a limit of concurrent work and limits of waiting work.            *)
(*                                                                         *)
(* Tasks are numbered in the order of their admission, so a key's FIFO is  *)
(* the set of its waiting tasks, its head the least one.  run, expire and  *)
(* complete are synchronous and end in pump(); pumping is TRUE while pump  *)
(* loops, one iteration a step, and nothing else runs then.                *)
(***************************************************************************)
EXTENDS Integers, FiniteSets, Sequences

CONSTANTS
    Keys,
    MaxConcurrent,      \* budgets, as in the constructor
    MaxPending,
    MaxPendingPerKey,
    Refreshing,         \* callers replace waiting work (refreshPending)
    MaxTasks            \* bound of the model: tasks ever admitted

ASSUME BudgetAssumption ==
    /\ MaxConcurrent \in Nat \ {0}
    /\ MaxPending \in Nat
    /\ MaxPendingPerKey \in Nat \ {0}
    /\ Refreshing \in BOOLEAN
    /\ MaxTasks \in Nat

VARIABLES
    states,     \* keys of the states map
    holder,     \* states[key].active, 0 for null
    ready,      \* keys to be dispatched, in turn; readySet is its range
    active,     \* counters
    waiting,
    pumping,    \* inside pump()
    admitted,   \* number of tasks admitted so far
    key,        \* the key each task was admitted under
    stage,      \* "new", "waiting", "dispatched", "running", or how it settled
    aged        \* maxQueueAgeMs has passed since enqueuedAt

execVars == <<states, holder, ready, active, waiting, pumping, admitted, key,
              stage, aged>>

Tasks == 1..MaxTasks
Settled == {"done", "failed", "expired"}
Stages == {"new", "waiting", "dispatched", "running"} \union Settled

\* states[k].pending, in the order of task numbers.
Pending(k) == {t \in Tasks : stage[t] = "waiting" /\ key[t] = k}

InTurn == {ready[i] : i \in DOMAIN ready}

ExecTypeOK ==
    /\ states \subseteq Keys
    /\ holder \in [Keys -> {0} \union Tasks]
    /\ ready \in Seq(Keys)
    /\ active \in Int
    /\ waiting \in Int
    /\ pumping \in BOOLEAN
    /\ admitted \in 0..MaxTasks
    /\ key \in [Tasks -> Keys]
    /\ stage \in [Tasks -> Stages]
    /\ aged \in [Tasks -> BOOLEAN]

ExecInit ==
    /\ states = {}
    /\ holder = [k \in Keys |-> 0]
    /\ ready = <<>>
    /\ active = 0
    /\ waiting = 0
    /\ pumping = FALSE
    /\ admitted = 0
    /\ key \in {[t \in Tasks |-> k] : k \in Keys}
    /\ stage = [t \in Tasks |-> "new"]
    /\ aged = [t \in Tasks |-> FALSE]

-----------------------------------------------------------------------------
\* Faulty: only the total of waiting work is limited.
CanRunAnyKey(k) == waiting < MaxPending \/ active < MaxConcurrent

\* Work that starts at once needs no place among the waiting.
CanRun(k) ==
    /\ \/ holder[k] = 0 /\ Pending(k) = {} /\ active < MaxConcurrent
       \/ waiting < MaxPending
    /\ Cardinality(Pending(k)) < MaxPendingPerKey

MarkReady(k) == IF k \in InTurn THEN ready ELSE Append(ready, k)

\* run: admission of the next task.  A refused one throws and leaves nothing.
Run(k) ==
    /\ ~pumping
    /\ admitted < MaxTasks
    /\ CanRun(k)
    /\ admitted' = admitted + 1
    /\ key' = [key EXCEPT ![admitted + 1] = k]
    /\ stage' = [stage EXCEPT ![admitted + 1] = "waiting"]
    /\ states' = states \union {k}
    /\ waiting' = waiting + 1
    /\ ready' = IF holder[k] = 0 THEN MarkReady(k) ELSE ready
    /\ pumping' = TRUE
    /\ UNCHANGED <<holder, active, aged>>

-----------------------------------------------------------------------------
\* pump().  Its skips for keys without a state, without pending work or with
\* work under way are never taken: see ReadyKeysWait.

\* The head of the key's queue.
Oldest(k) == {t \in Pending(k) : \A u \in Pending(k) : t <= u}

Dispatch ==
    /\ pumping
    /\ active < MaxConcurrent /\ ready # <<>>
    /\ LET k == Head(ready) IN
       /\ k \in states /\ holder[k] = 0
       /\ \E t \in Oldest(k) :
             /\ holder' = [holder EXCEPT ![k] = t]
             /\ stage' = [stage EXCEPT ![t] = "dispatched"]
    /\ ready' = Tail(ready)
    /\ waiting' = waiting - 1
    /\ active' = active + 1
    /\ UNCHANGED <<states, pumping, admitted, key, aged>>

PumpEnds ==
    /\ pumping
    /\ active >= MaxConcurrent \/ ready = <<>>
    /\ pumping' = FALSE
    /\ UNCHANGED <<states, holder, ready, active, waiting, admitted, key, stage,
                   aged>>

-----------------------------------------------------------------------------
\* Dispatched work, in microtasks of its own.

\* Young enough: the caller's work starts.
Start(t) ==
    /\ ~pumping
    /\ stage[t] = "dispatched" /\ ~aged[t]
    /\ stage' = [stage EXCEPT ![t] = "running"]
    /\ UNCHANGED <<states, holder, ready, active, waiting, pumping, admitted,
                   key, aged>>

\* Faulty: the key's next task is not put in turn.
ForgetfulComplete(t, outcome) ==
    /\ holder' = [holder EXCEPT ![key[t]] = 0]
    /\ active' = active - 1
    /\ states' = IF Pending(key[t]) = {} THEN states \ {key[t]} ELSE states
    /\ UNCHANGED ready
    /\ stage' = [stage EXCEPT ![t] = outcome]
    /\ pumping' = TRUE
    /\ UNCHANGED <<waiting, admitted, key, aged>>

\* complete(): the permit is given back, then pump().
Complete(t, outcome) ==
    /\ holder' = [holder EXCEPT ![key[t]] = 0]
    /\ active' = active - 1
    /\ IF Pending(key[t]) # {}
       THEN ready' = MarkReady(key[t]) /\ UNCHANGED states
       ELSE states' = states \ {key[t]} /\ UNCHANGED ready
    /\ stage' = [stage EXCEPT ![t] = outcome]
    /\ pumping' = TRUE
    /\ UNCHANGED <<waiting, admitted, key, aged>>

\* Too old at its start: it throws WorkQueueExpired instead.
StartsTooLate(t) ==
    /\ ~pumping
    /\ stage[t] = "dispatched" /\ aged[t]
    /\ Complete(t, "expired")

\* The work's promise settles, whenever that is.
Finish(t, outcome) ==
    /\ ~pumping
    /\ stage[t] = "running"
    /\ Complete(t, outcome)

-----------------------------------------------------------------------------
\* Time, and the operations on waiting work.

Age(t) ==
    /\ ~pumping
    /\ stage[t] \in {"waiting", "dispatched"} /\ ~aged[t]
    /\ aged' = [aged EXCEPT ![t] = TRUE]
    /\ UNCHANGED <<states, holder, ready, active, waiting, pumping, admitted,
                   key, stage>>

\* Faulty: an emptied key stays in turn.
LeaveTurn(k) == ready

\* The key's turn is dropped with its state.
DropTurn(k) ==
    IF k \notin InTurn THEN ready
    ELSE LET at == CHOOSE i \in DOMAIN ready : ready[i] = k
         IN  SubSeq(ready, 1, at - 1) \o SubSeq(ready, at + 1, Len(ready))

\* Faulty: nothing expires while work of its key is under way.
ExpireWhenIdle(t) ==
    /\ ~pumping
    /\ stage[t] = "waiting" /\ aged[t]
    /\ holder[key[t]] = 0
    /\ stage' = [stage EXCEPT ![t] = "expired"]
    /\ waiting' = waiting - 1
    /\ IF Pending(key[t]) = {t}
       THEN states' = states \ {key[t]} /\ ready' = DropTurn(key[t])
       ELSE UNCHANGED <<states, ready>>
    /\ UNCHANGED <<holder, active, pumping, admitted, key, aged>>

\* expire: the timer of a waiting task, however late it fires.
Expire(t) ==
    /\ ~pumping
    /\ stage[t] = "waiting" /\ aged[t]
    /\ stage' = [stage EXCEPT ![t] = "expired"]
    /\ waiting' = waiting - 1
    /\ IF holder[key[t]] = 0 /\ Pending(key[t]) = {t}
       THEN states' = states \ {key[t]} /\ ready' = DropTurn(key[t])
       ELSE UNCHANGED <<states, ready>>
    /\ UNCHANGED <<holder, active, pumping, admitted, key, aged>>

\* refreshPending: a caller replaced the payload of waiting work.
Refresh(t) ==
    /\ Refreshing
    /\ ~pumping
    /\ stage[t] = "waiting" /\ aged[t]
    /\ aged' = [aged EXCEPT ![t] = FALSE]
    /\ UNCHANGED <<states, holder, ready, active, waiting, pumping, admitted,
                   key, stage>>

TaskStep(t) ==
    \/ Start(t) \/ StartsTooLate(t)
    \/ Finish(t, "done") \/ Finish(t, "failed")
    \/ Age(t) \/ Expire(t) \/ Refresh(t)

ExecNext ==
    \/ \E k \in Keys : Run(k)
    \/ Dispatch \/ PumpEnds
    \/ \E t \in Tasks : TaskStep(t)

ExecSpec == ExecInit /\ [][ExecNext]_execVars

Settle(t) == StartsTooLate(t) \/ Finish(t, "done") \/ Finish(t, "failed")

\* Synchronous code runs to its end.
PumpRuns == WF_execVars(Dispatch \/ PumpEnds)

\* Microtasks run, and the work itself settles.
WorkSettles ==
    PumpRuns /\ \A t \in Tasks : WF_execVars(Start(t)) /\ WF_execVars(Settle(t))

\* The work may hang forever, but deadlines pass and their timers fire.
DeadlinesPass ==
    PumpRuns /\ \A t \in Tasks : /\ WF_execVars(Age(t) /\ stage[t] = "waiting")
                                /\ WF_execVars(Expire(t))

-----------------------------------------------------------------------------
\* Properties.

\* No wakeup is lost and no permit idles: between synchronous steps every
\* waiting task has work of its key ahead of it, or its key in turn while all
\* permits are taken (boundedKeyedExecutor.ts:98-119).
NoIdlePermit ==
    ~pumping => \A k \in Keys : Pending(k) # {} =>
        holder[k] # 0 \/ (k \in InTurn /\ active = MaxConcurrent)

\* What may be held at once is bounded, the map of keys included: "Bounded FIFO
\* per key" with "maxPending" overall (boundedKeyedExecutor.ts:26, 74-79).
WithinBudgets ==
    /\ Cardinality({t \in Tasks : stage[t] \in {"dispatched", "running"}}) <= MaxConcurrent
    /\ ~pumping =>
        /\ Cardinality({t \in Tasks : stage[t] = "waiting"}) <= MaxPending
        /\ Cardinality(states) <= MaxConcurrent + MaxPending
    /\ \A k \in Keys : Cardinality(Pending(k)) <= MaxPendingPerKey

\* Work of one key never overlaps or overtakes: once a task was dispatched,
\* every earlier one of its key has settled.
InOrder ==
    \A t, u \in Tasks :
        t < u /\ stage[t] # "new" /\ key[t] = key[u]
              /\ stage[u] \in {"dispatched", "running", "done", "failed"}
            => stage[t] \in Settled

\* Admitted work settles if running work does, without any queue deadline.
AdmittedWorkSettles ==
    WorkSettles => \A t \in Tasks : stage[t] = "waiting" ~> stage[t] \in Settled

\* "Accepted promises reject on expiry/failure" (boundedKeyedExecutor.ts:53):
\* waiting ends at the deadline even if the work ahead hangs forever, unless the
\* caller refreshes it again and again.
WaitingEnds ==
    DeadlinesPass =>
        \A t \in Tasks : \/ stage[t] = "waiting" ~> stage[t] # "waiting"
                        \/ []<><<Refresh(t)>>_execVars

-----------------------------------------------------------------------------
\* The inductive invariant.

\* The counters count, and a permit belongs to the task its key names.
CountsExact ==
    /\ active = Cardinality({t \in Tasks : stage[t] \in {"dispatched", "running"}})
    /\ waiting = Cardinality({t \in Tasks : stage[t] = "waiting"})
    /\ \A t \in Tasks : stage[t] \in {"dispatched", "running"} <=> holder[key[t]] = t
    /\ \A k \in Keys : holder[k] # 0 => key[holder[k]] = k

\* A key is in turn, once, exactly when it waits for nothing but a permit.
ReadyKeysWait ==
    /\ InTurn = {k \in Keys : holder[k] = 0 /\ Pending(k) # {}}
    /\ \A i, j \in DOMAIN ready : ready[i] = ready[j] => i = j

\* The map of states keeps no key without work.
NoStaleState == states = {k \in Keys : holder[k] # 0 \/ Pending(k) # {}}

\* Holds of every reachable state and is preserved by every step
\* (boundedKeyedExecutor.ts:54-119).
ExecInv ==
    /\ ExecTypeOK
    /\ CountsExact
    /\ ReadyKeysWait
    /\ NoStaleState
    /\ active <= MaxConcurrent
    /\ ~pumping => active = MaxConcurrent \/ ready = <<>>
    /\ \A t \in Tasks : stage[t] = "new" <=> t > admitted

=============================================================================
