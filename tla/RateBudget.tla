----------------------------- MODULE RateBudget -----------------------------
(* The budget of one tracker (backend deviceRateLimiter.ts): a fixed window    *)
(* kept in one process, or shared by replicas that reserve leases of tokens    *)
(* from a bucket in the database and spend them without asking again. A        *)
(* request carries the time of its arrival, which other requests may overtake. *)
EXTENDS Integers

CONSTANTS
    Limiters,   \* processes of the backend
    Limit,      \* requests per window
    LeaseSize,  \* tokens of a lease
    Window,     \* WINDOW_MS, in ticks
    Lags,       \* how far behind the present a request's time may be
    MaxInstant     \* ticks (bound)

ASSUME BudgetAssumption ==
    /\ Limit \in Nat \ {0} /\ LeaseSize \in 1 .. Limit /\ Window \in Nat \ {0}
    /\ Lags \subseteq Nat /\ MaxInstant \in Nat

VARIABLES
    time,
    mode,       \* "local" or "distributed"
    bucket,     \* _deviceRateLimits/<id>, or the local bucket
    lease,      \* replica -> remaining tokens and end of the lease
    spent,      \* start of a window -> requests let through in it
    overtaken   \* a request came behind the start of the current window

budgetVars == <<time, mode, bucket, lease, spent, overtaken>>

NoBucket == [start |-> 0, count |-> 0, exists |-> FALSE]
NoLease == [remaining |-> 0, until |-> 0]

BudgetInit ==
    /\ time = 0
    /\ mode \in {"local", "distributed"}
    /\ bucket = NoBucket
    /\ lease = [r \in Limiters |-> NoLease]
    /\ spent = [w \in 0 .. MaxInstant |-> 0]
    /\ overtaken = FALSE

\* validBucket() and the end of a window: a bucket that is absent, over, or that
\* started after the request's time gives way to a new one.
Open(at) ==
    IF bucket.exists /\ bucket.start <= at /\ at - bucket.start < Window
    THEN bucket ELSE [start |-> at, count |-> 0, exists |-> TRUE]

Overtaken(at) == overtaken' = (overtaken \/ (bucket.exists /\ bucket.start > at))

\* Faulty: a lease is granted whole however little is left.
WholeLease(b) == LeaseSize

\* reserveRateLimitTokens(): no more than is left of the window.
Granted(b) == IF Limit - b.count < LeaseSize THEN Limit - b.count ELSE LeaseSize

\* consumeUnlocked(), distributed: a lease that is not over pays; otherwise a new
\* one is reserved in a transaction, or the request is turned away.
ConsumeShared(r, at) ==
    /\ mode = "distributed"
    /\ \/ /\ lease[r].until > at /\ lease[r].remaining > 0
          /\ lease' = [lease EXCEPT ![r].remaining = @ - 1]
          /\ spent' = [spent EXCEPT ![lease[r].until - Window] = @ + 1]
          /\ UNCHANGED <<bucket, overtaken>>
       \/ /\ lease[r].until <= at \/ lease[r].remaining = 0
          /\ Overtaken(at)
          /\ LET b == Open(at) IN
             \/ /\ Granted(b) > 0
                /\ bucket' = [b EXCEPT !.count = @ + Granted(b)]
                /\ lease' = [lease EXCEPT ![r] = [remaining |-> Granted(b) - 1, until |-> b.start + Window]]
                /\ spent' = [spent EXCEPT ![b.start] = @ + 1]
             \/ /\ Granted(b) <= 0
                /\ lease' = [lease EXCEPT ![r] = NoLease]
                /\ UNCHANGED <<bucket, spent>>
    /\ UNCHANGED <<time, mode>>

\* consumeUnlocked(), local: every request counts, the first Limit pass.
ConsumeLocal(at) ==
    /\ mode = "local"
    /\ Open(at).count <= Limit
    /\ Overtaken(at)
    /\ LET b == Open(at) IN
       /\ bucket' = [b EXCEPT !.count = @ + 1]
       /\ spent' = IF b.count < Limit THEN [spent EXCEPT ![b.start] = @ + 1] ELSE spent
    /\ UNCHANGED <<time, mode, lease>>

\* A replica restarts: its lease is lost with its memory.
LoseLease(r) ==
    /\ lease[r] # NoLease
    /\ lease' = [lease EXCEPT ![r] = NoLease]
    /\ UNCHANGED <<time, mode, bucket, spent, overtaken>>

Pass ==
    /\ time < MaxInstant
    /\ time' = time + 1
    /\ UNCHANGED <<mode, bucket, lease, spent, overtaken>>

BudgetNext ==
    \/ Pass
    \/ \E r \in Limiters : LoseLease(r)
    \/ \E lag \in Lags :
          /\ lag <= time
          /\ ConsumeLocal(time - lag) \/ \E r \in Limiters : ConsumeShared(r, time - lag)

BudgetSpec == BudgetInit /\ [][BudgetNext]_budgetVars

-----------------------------------------------------------------------------
\* However the replicas share, lose and outlive their leases, no window of the
\* fleet lets through more than the limit, and no two windows overlap (the
\* comment at deviceRateLimiter.ts:162, unused tokens "can never increase the
\* configured fleet-wide budget"), unless a request came behind the start of the
\* window, which starts another one.
BudgetKept ==
    ~overtaken =>
        \A v, w \in 0 .. MaxInstant :
            /\ spent[v] <= Limit
            /\ v < w /\ spent[v] > 0 /\ spent[w] > 0 => v + Window <= w
=============================================================================
