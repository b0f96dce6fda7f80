--------------------------------- MODULE RideBus ---------------------------------
(* A bus and its rides: their documents, node and worker steps, and the progress of *)
(* one ride along its stops, which RideWorker leaves open (Reductions). The two     *)
(* share no variable: a behaviour follows one of them, the aspect.                  *)
EXTENDS RideLifecycle, StopProgress

VARIABLE aspect

\* Out from the origin by a stop to the turn, and back by the same stop.
OutAndBack == <<0, 1, 3, 5, 6>>

rideBusVars == <<aspect, vars, stopVars>>

RideBusInit == aspect \in {"rides", "stops"} /\ Init /\ StopInit
RideBusNext ==
    /\ UNCHANGED aspect
    /\ \/ aspect = "rides" /\ Next /\ UNCHANGED stopVars
       \/ aspect = "stops" /\ StopNext /\ UNCHANGED vars

RideBusSpec == RideBusInit /\ [][RideBusNext]_rideBusVars

-----------------------------------------------------------------------------
\* Passengers are never shown more than the checkpoint holds, nor does what they
\* are shown of one ride go back (LiveBehindDurable, LiveOnlyAdvances).
LiveFollowsDurable == [][LiveBehindDurable' /\ LiveAdvances]_vars
=============================================================================
