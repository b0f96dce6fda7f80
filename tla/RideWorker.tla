------------------------------ MODULE RideWorker -----------------------------
(* What the leader's trip state engine does with a ride (processLiveSnapshot   *)
(* and maybeArmAutomaticTurnaround in tripStateEngine.ts) and how a ride comes *)
(* back from its durable copy (performDurableRideRestore in                    *)
(* durableRideRecovery.ts). The engine works off one queue per live record:    *)
(* event is a snapshot waiting in it, captured while an earlier one is still   *)
(* being processed by job. A step that fails, or a leader that crashes or is   *)
(* replaced, drops the job (AbandonJob); writes of a replaced leader do not    *)
(* land (WorkerFence).                                                         *)
EXTENDS RideStart

VARIABLES
    event,      \* the live record as queued, or Unseen
    job,        \* the snapshot in work
    restore     \* the device side's restore of a durable ride

workerVars == <<event, job, restore>>

NoJob == [pc |-> "idle", snap |-> Unseen, trip |-> "pre", idx |-> 0, sid |-> None]
NoRestore == [pc |-> "idle", sid |-> None, trip |-> "pre", idx |-> 0]

WorkerTypeOK ==
    /\ event \in Glances
    /\ job \in [pc : {"idle", "persist", "publish", "complete", "mark", "look", "bring",
                      "claim", "return", "activate", "clear"},
                snap : Glances, trip : {"pre", "in", "done"}, idx : 0 .. LastStop, sid : Maybe]
    /\ restore \in [pc : {"idle", "write"}, sid : Maybe, trip : {"pre", "in", "done"}, idx : 0 .. LastStop]

WorkerInit == event = Unseen /\ job = NoJob /\ restore = NoRestore

JobAt(pc) == job.pc = pc

-----------------------------------------------------------------------------
(* A running ride: reduce the fix, persist, publish, complete.                 *)

\* The engine does not look at the pause.
Engine(n) == [Glance(n) EXCEPT !.paused = FALSE]

\* A changed record is queued, and every record again when a leader starts or a
\* failed job asks for a replay. Records without a ride in progress or completed
\* change nothing modelled here.
Observe ==
    /\ event = Unseen /\ Engine(node) # job.snap
    /\ Running(node) \/ node.trip = "done"
    /\ event' = Engine(node)
    /\ UNCHANGED <<storeVars, job, restore>>

\* Faulty: an old fix counts as news.
NoReplay(n) == FALSE

\* A silent receiver's old fix, seen again after a restart, is not persisted.
OfflineReplay(n) == n.age > 0

\* Faulty: the last stop is passed too.
ReductionsPastEnd(n) == {<<n.trip, n.idx>>} \cup {out \in {"in"} \X (n.idx .. LastStop + 1) : ~OfflineReplay(n)}

\* What reduceTripState can make of a snapshot: nothing, and of a fresh fix the
\* departure, further stops, or the confirmed arrival at the last one.
Reductions(n) ==
    {<<n.trip, n.idx>>}
        \cup {out \in {"in"} \X (n.idx .. LastStop) : ~OfflineReplay(n)}
        \cup {out \in {<<"done", LastStop>>} : ~OfflineReplay(n) /\ n.trip = "in" /\ n.idx = LastStop}

\* Faulty: only the departure is persisted.
PersistsDeparture(n, out) == out[1] # n.trip

Persists(n, out) == ~OfflineReplay(n)

BeginRunning ==
    /\ JobAt("idle") /\ event.running
    /\ \E out \in Reductions(event) :
           job' = [NoJob EXCEPT !.snap = event, !.trip = out[1], !.idx = out[2],
                                !.pc = IF out[1] = "done" THEN "complete"
                                       ELSE IF Persists(event, out) THEN "persist" ELSE "publish"]
    /\ event' = Unseen
    /\ UNCHANGED <<storeVars, restore>>

\* persistActiveRideLifecycle: only the session that holds the bus, and never
\* back from what is durable already.
Persist ==
    /\ JobAt("persist")
    /\ LET s == job.snap.session
           same == ride.session = s
           trip == IF same /\ ride.trip = "in" THEN "in" ELSE job.trip
           idx == IF same /\ ride.idx > job.idx THEN ride.idx ELSE job.idx
       IN  IF lock = s
           THEN /\ ride' = [session |-> s, trip |-> trip, idx |-> idx, age |-> 0]
                /\ IF Open(s) /\ trip = "in" THEN SetStatus(s, "active") ELSE UNCHANGED <<status, quiet>>
                /\ job' = [job EXCEPT !.pc = "publish", !.trip = trip, !.idx = idx]
           ELSE /\ job' = [job EXCEPT !.pc = "publish"]
                /\ UNCHANGED <<status, quiet, ride>>
    /\ UNCHANGED <<prev, lock, fleet, binding, node, issued, event, restore>>

\* The guarded live write, left out when the fix changed nothing.
Publish ==
    /\ JobAt("publish")
    /\ node' = IF /\ <<job.trip, job.idx>> # <<job.snap.trip, job.snap.idx>>
                  /\ node.exists /\ node.session = job.snap.session
                  /\ node.trip # "done" /\ node.age = 0
               THEN [node EXCEPT !.trip = job.trip, !.idx = job.idx] ELSE node
    /\ job' = NoJob
    /\ UNCHANGED <<firestoreVars, event, restore>>

\* The completion of a ride that still holds the bus.
Complete ==
    /\ JobAt("complete")
    /\ LET s == job.snap.session
       IN  /\ lock = s /\ Open(s)
           /\ SetStatus(s, "completed")
           /\ DropRideOf(s)
           /\ lock' = None
           /\ fleet' = [fleet EXCEPT !.journey = [session |-> s, consumedBy |-> None]]
    /\ job' = [job EXCEPT !.pc = "mark"]
    /\ UNCHANGED <<prev, binding, node, issued, event, restore>>

\* A ride completed before whose live record does not show it yet, because the
\* earlier publication was lost.
CompleteAgain ==
    /\ JobAt("complete")
    /\ LET s == job.snap.session
       IN status[s] = "completed" /\ lock \in {None, s} /\ ride.session \in {None, s}
    /\ job' = [job EXCEPT !.pc = "mark"]
    /\ UNCHANGED <<storeVars, event, restore>>

MarkDone ==
    /\ JobAt("mark")
    /\ node' = IF node.session = job.snap.session
               THEN [node EXCEPT !.trip = "done", !.idx = job.idx, !.claim = None] ELSE node
    /\ job' = NoJob
    /\ UNCHANGED <<firestoreVars, event, restore>>

\* Thirty seconds later the completed record goes offline.
RetireDone ==
    /\ node.trip = "done" /\ node.on
    /\ node' = [node EXCEPT !.on = FALSE, !.age = 0]
    /\ UNCHANGED <<firestoreVars, workerVars>>

-----------------------------------------------------------------------------
(* Restoring a durable ride: Firestore read, then RTDB write.                  *)

\* The ride a restore finds: the owner's progress.
DurableRide == IF ride.session # None /\ lock = ride.session /\ Open(lock) THEN ride.session ELSE None

\* Failing a ride, the device side may restore a completed one whose return is
\* still to come.
DurableJourney ==
    IF /\ ride.session = None /\ lock = None
       /\ fleet.journey.session # None /\ fleet.journey.consumedBy = None
       /\ status[fleet.journey.session] = "completed"
    THEN fleet.journey.session ELSE None

\* Faulty: a ride is restored over its own completion.
RestorableOverDone(n, s) ==
    /\ ~LiveFor(n, s)
    /\ n.session \notin {None, s} => /\ n.trip = "done" /\ prev[s] = n.session
                                     /\ n.claim \in {None, s}

\* The live records a running ride may be restored over: none, its own unless
\* ended, or the completed ride it is the claimed return of.
RestorableOver(n, s) ==
    /\ ~LiveFor(n, s)
    /\ n.session = s => n.trip # "done"
    /\ n.session \notin {None, s} => /\ n.trip = "done" /\ prev[s] = n.session
                                     /\ n.claim \in {None, s}

Restored(s, trip, idx) ==
    [node EXCEPT !.exists = TRUE, !.session = s, !.trip = trip, !.idx = idx,
                 !.on = trip # "done", !.claim = None, !.age = 0]

\* A restore is scheduled by a report of the device.
LookForRide ==
    /\ restore.pc = "idle" /\ node.exists /\ node.age = 0
    /\ \/ /\ DurableRide # None
          /\ restore' = [pc |-> "write", sid |-> ride.session, trip |-> ride.trip, idx |-> ride.idx]
       \/ /\ DurableJourney # None
          /\ restore' = [pc |-> "write", sid |-> DurableJourney, trip |-> "done", idx |-> LastStop]
    /\ UNCHANGED <<storeVars, event, job>>

RestoreNode ==
    /\ restore.pc = "write"
    /\ LET s == restore.sid
           allowed == IF restore.trip = "done" THEN node.session = None ELSE RestorableOver(node, s)
       IN  node' = IF allowed THEN Restored(s, restore.trip, restore.idx) ELSE node
    /\ restore' = NoRestore
    /\ UNCHANGED <<firestoreVars, event, job>>

\* A crash or an error between the two.
AbandonRestore ==
    /\ restore.pc = "write"
    /\ restore' = NoRestore
    /\ UNCHANGED <<storeVars, event, job>>

-----------------------------------------------------------------------------
(* A completed ride: bring back a return already created, or create one.       *)

BeginDone ==
    /\ JobAt("idle") /\ event.trip = "done"
    /\ job' = [NoJob EXCEPT !.snap = event, !.pc = "look"]
    /\ event' = Unseen
    /\ UNCHANGED <<storeVars, restore>>

LookForReturn ==
    /\ JobAt("look")
    /\ job' = IF DurableRide # None
              THEN [job EXCEPT !.pc = "bring", !.sid = ride.session, !.trip = ride.trip, !.idx = ride.idx]
              ELSE [job EXCEPT !.pc = "claim"]
    /\ UNCHANGED <<storeVars, event, restore>>

BringReturn ==
    /\ JobAt("bring")
    /\ IF RestorableOver(node, job.sid)
       THEN node' = Restored(job.sid, job.trip, job.idx) /\ job' = NoJob
       ELSE /\ job' = [job EXCEPT !.pc = "claim", !.sid = None, !.trip = "pre", !.idx = 0]
            /\ UNCHANGED node
    /\ UNCHANGED <<firestoreVars, event, restore>>

\* The RTDB claim of the return, over none or over one that a crash left behind
\* more than TURNAROUND_CLAIM_STALE_MS ago.
ClaimReturn ==
    /\ JobAt("claim")
    /\ job.snap.age = 0 /\ node.age = 0
    /\ node.session = job.snap.session /\ node.trip = "done"
    /\ issued < MaxSessions
    /\ issued' = issued + 1
    /\ node' = [node EXCEPT !.claim = issued']
    /\ job' = [job EXCEPT !.pc = "return", !.sid = issued']
    /\ UNCHANGED <<status, prev, quiet, lock, ride, fleet, binding, event, restore>>

\* Faulty: the journey's earlier return is not looked at.
MayReturnAgain(p) == lock = None /\ status[p] = "completed"

\* The durable return: the bus is free, and the last journey is this ride's and
\* nobody's yet. A commit whose reply is lost counts as refused.
MayReturn(p) == lock = None /\ status[p] = "completed" /\ fleet.journey = [session |-> p, consumedBy |-> None]

CreateReturn ==
    /\ JobAt("return")
    /\ LET p == job.snap.session
           s == job.sid
       IN  /\ MayReturn(p)
           /\ SetStatus(s, "armed")
           /\ prev' = [prev EXCEPT ![s] = p]
           /\ lock' = s
           /\ ride' = [session |-> s, trip |-> "pre", idx |-> 0, age |-> 0]
           /\ fleet' = [fleet EXCEPT !.journey.consumedBy = s]
    /\ \E pc \in {"activate", "clear"} : job' = [job EXCEPT !.pc = pc]
    /\ UNCHANGED <<binding, node, issued, event, restore>>

RefuseReturn ==
    /\ JobAt("return")
    /\ job' = [job EXCEPT !.pc = "clear"]
    /\ UNCHANGED <<storeVars, event, restore>>

ActivateReturn ==
    /\ JobAt("activate")
    /\ node' = IF node.session = job.snap.session /\ node.trip = "done" /\ node.claim = job.sid
               THEN Restored(job.sid, "pre", 0) ELSE node
    /\ job' = NoJob
    /\ UNCHANGED <<firestoreVars, event, restore>>

ClearClaim ==
    /\ JobAt("clear")
    /\ node' = IF node.claim = job.sid THEN [node EXCEPT !.claim = None] ELSE node
    /\ job' = NoJob
    /\ UNCHANGED <<firestoreVars, event, restore>>

\* Also the end of a job whose transaction found the ride gone.
AbandonJob ==
    /\ ~JobAt("idle")
    /\ job' = NoJob
    /\ UNCHANGED <<storeVars, event, restore>>

EngineStep ==
    \/ Observe \/ BeginRunning \/ Persist \/ Publish \/ Complete \/ CompleteAgain \/ MarkDone \/ RetireDone
    \/ BeginDone \/ LookForReturn \/ BringReturn \/ ClaimReturn \/ CreateReturn \/ RefuseReturn
    \/ ActivateReturn \/ ClearClaim \/ AbandonJob

RestoreStep == LookForRide \/ RestoreNode \/ AbandonRestore
=============================================================================
