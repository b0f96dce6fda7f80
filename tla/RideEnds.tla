---------------------------------- MODULE RideEnds ----------------------------------
(* How rides end, for the bus and for its passengers: a ride whose tracker fell      *)
(* silent is ended and its bus freed; a passenger learns of the end. PassengerRide   *)
(* has the part of the lifecycle that its page can tell apart, so that the two share *)
(* no variable: a behaviour follows one of them, the scene.                          *)
EXTENDS RideLifecycle, PassengerRide

VARIABLE scene

rideEndsVars == <<scene, vars, passengerVars>>

RideEndsInit == scene \in {"bus", "passenger"} /\ Init /\ PassengerInit
RideEndsNext ==
    /\ UNCHANGED scene
    /\ \/ scene = "bus" /\ Next /\ UNCHANGED passengerVars
       \/ scene = "passenger" /\ PassengerNext /\ UNCHANGED vars

\* Requests, jobs and restores end, the engine keeps working, sweeps recur every
\* hour, and one of them gets through in the end although any may fail; rides
\* themselves and the device owe nothing.
BusFairness ==
    /\ \A r \in Requests : WF_vars(scene = "bus" /\ GiveUp(r) /\ UNCHANGED <<workerVars, endVars>>)
    /\ WF_vars(scene = "bus" /\ (BeginRunning \/ BeginDone \/ AbandonJob) /\ UNCHANGED <<startVars, endVars>>)
    /\ WF_vars(scene = "bus" /\ AbandonRestore /\ UNCHANGED <<startVars, endVars>>)
    /\ WF_vars(scene = "bus" /\ AbandonStop) /\ WF_vars(scene = "bus" /\ AbandonScan)
    /\ SF_vars(scene = "bus" /\ Silence)
    /\ \A s \in Sessions : WF_vars(scene = "bus" /\ ScanSession(s))
    /\ SF_vars(scene = "bus" /\ RetireScanned) /\ SF_vars(scene = "bus" /\ CommitScan)

\* The backend publishes an end, the feed delivers, the ten seconds
\* pass, and a request that is not lost is answered.
PassengerFairness ==
    /\ WF_passengerVars(scene = "passenger" /\ ShowEnd) /\ WF_passengerVars(scene = "passenger" /\ Hear)
    /\ WF_passengerVars(scene = "passenger" /\ AskFeedback) /\ WF_passengerVars(scene = "passenger" /\ StatusStep)
    /\ WF_passengerVars(scene = "passenger" /\ RestoringStep) /\ WF_passengerVars(scene = "passenger" /\ JoinStep)

RideEndsSpec ==
    /\ RideEndsInit /\ [][RideEndsNext]_rideEndsVars
    /\ BusFairness /\ PassengerFairness

-----------------------------------------------------------------------------
\* The end is seen on both sides: a bus that fell silent is freed, and a passenger
\* who boarded is told (SilentBusIsFreed, RiderIsTold).
EndsAreSeen == SilentBusIsFreed /\ RiderIsTold
=============================================================================
