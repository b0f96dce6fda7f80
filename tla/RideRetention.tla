------------------------------ MODULE RideRetention -------------------------------
(* Removal of an ended ride: services/rideHistoryDeletion.ts, asked for over   *)
(* HTTP, and services/retentionSweeper.ts once the ride is old. A recursive    *)
(* deletion is no transaction: it may take the ride and leave what is below    *)
(* it. A job, a document elsewhere, remembers it. The leader resumes jobs on   *)
(* its sweep; a former leader's recursion goes on beside the new one's.        *)
EXTENDS Integers

CONSTANTS
    Cleaners,    \* processes; each runs one deletion at a time
    Parts        \* documents below a ride

VARIABLES
    ride,        \* "active", "ended" or "gone"
    below,       \* the documents below it that are left
    trip,        \* completed_trips: the projection of the ride
    jobs,        \* durable jobs: of which kinds the ride has one
    clean,       \* what each process executes
    sweeper      \* the process whose fence holds

retentionVars == <<ride, below, trip, jobs, clean, sweeper>>

\* "manual": _ride_history_deletion_jobs. "aged": _retention_deletion_jobs.
Kinds == {"manual", "aged"}
Clean == [at |-> "idle", kind |-> "aged", fenced |-> FALSE, found |-> FALSE]

RetentionInit ==
    /\ ride = "active" /\ below = Parts /\ trip = FALSE
    /\ jobs = {}
    /\ clean = [c \in Cleaners |-> Clean]
    /\ sweeper \in Cleaners

\* A request writes as it is; a sweep only while its process leads.
MayWrite(c) == clean[c].fenced => sweeper = c
CleanAt(c, place) == clean[c].at = place
CleanGoes(c, place) == clean' = [clean EXCEPT ![c].at = place]
CleanEnds(c) == clean' = [clean EXCEPT ![c] = Clean]
Abandons(c) == CleanEnds(c) /\ UNCHANGED <<ride, below, trip, jobs, sweeper>>

EndOfRide ==
    /\ ride = "active"
    /\ ride' = "ended"
    /\ trip' \in BOOLEAN
    /\ UNCHANGED <<below, jobs, clean, sweeper>>

\* deleteTerminalRideHistory reads the ride, which may be gone but not active,
\* and its projection; it is called for a request, or to resume a job.
DeleteHistory(c) ==
    /\ clean[c] = Clean /\ ride # "active"
    /\ \E fenced \in BOOLEAN :
          /\ fenced => sweeper = c /\ "manual" \in jobs
          /\ clean' = [clean EXCEPT ![c] = [at |-> "job", kind |-> "manual", fenced |-> fenced, found |-> trip]]
    /\ UNCHANGED <<ride, below, trip, jobs, sweeper>>

\* The sweep's query finds a ride that is old; or its jobs are resumed, and
\* those need no new job.
SweepRide(c) ==
    /\ clean[c] = Clean /\ sweeper = c
    /\ \/ ride = "ended" /\ clean' = [clean EXCEPT ![c] = [Clean EXCEPT !.at = "job", !.fenced = TRUE]]
       \/ "aged" \in jobs /\ clean' = [clean EXCEPT ![c] = [Clean EXCEPT !.at = "assert", !.fenced = TRUE]]
    /\ UNCHANGED <<ride, below, trip, jobs, sweeper>>

WriteJob(c) ==
    /\ CleanAt(c, "job") /\ MayWrite(c)
    /\ jobs' = jobs \union {clean[c].kind}
    /\ CleanGoes(c, "assert")
    /\ UNCHANGED <<ride, below, trip, sweeper>>

BeginRecursion(c) ==
    /\ CleanAt(c, "assert") /\ MayWrite(c)
    /\ CleanGoes(c, "recursing")
    /\ UNCHANGED <<ride, below, trip, jobs, sweeper>>

\* One document at a time, in any order; no fence.
DeleteOne(c) ==
    /\ CleanAt(c, "recursing")
    /\ \/ ride # "gone" /\ ride' = "gone" /\ UNCHANGED below
       \/ (\E part \in below : below' = below \ {part}) /\ UNCHANGED ride
    /\ UNCHANGED <<trip, jobs, clean, sweeper>>

\* Faulty: the ride itself is what decides that the recursion is over.
RideIsGone == ride = "gone"

AllIsGone == ride = "gone" /\ below = {}

EndRecursion(c) ==
    /\ CleanAt(c, "recursing") /\ AllIsGone
    /\ CleanGoes(c, IF clean[c].kind = "manual" THEN "projections" ELSE "done")
    /\ UNCHANGED <<ride, below, trip, jobs, sweeper>>

DeleteProjections(c) ==
    /\ CleanAt(c, "projections") /\ MayWrite(c)
    /\ trip' = (trip /\ ~clean[c].found)
    /\ CleanGoes(c, "done")
    /\ UNCHANGED <<ride, below, jobs, sweeper>>

DeleteJob(c) ==
    /\ CleanAt(c, "done") /\ MayWrite(c)
    /\ jobs' = jobs \ {clean[c].kind}
    /\ CleanEnds(c)
    /\ UNCHANGED <<ride, below, trip, sweeper>>

\* Any call may fail, and a write finds its fence closed; a process may stop.
CleanFails(c) == clean[c] # Clean /\ Abandons(c)

NextSweeper(c) ==
    /\ sweeper # c
    /\ sweeper' = c
    /\ UNCHANGED <<ride, below, trip, jobs, clean>>

RetentionNext ==
    \/ EndOfRide
    \/ \E c \in Cleaners :
          \/ DeleteHistory(c) \/ SweepRide(c) \/ WriteJob(c) \/ BeginRecursion(c) \/ DeleteOne(c)
          \/ EndRecursion(c) \/ DeleteProjections(c) \/ DeleteJob(c) \/ CleanFails(c) \/ NextSweeper(c)

RetentionSpec == RetentionInit /\ [][RetentionNext]_retentionVars

-----------------------------------------------------------------------------
\* Properties.

\* What a deletion left below a ride that is gone has a job, whichever deletion
\* failed, resumed, overtook another or lost its fence: else no query finds it
\* again (retentionSweeper.ts:39-41).
LeftoversHaveJob == ride = "gone" /\ below # {} => jobs # {}
=============================================================================
