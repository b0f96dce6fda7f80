--------------------------------- MODULE LiveEnds ----------------------------------
(* What must come to an end: waiting work, a claim for a new path, the time in *)
(* which the public view differs from the live nodes. They share no variable:  *)
(* a behaviour follows one part, the scene, and each has its own fairness.     *)
EXTENDS KeyedExecutor, RouteReroute, LiveProjection

VARIABLE scene

endVars == <<scene, execVars, routeVars, projectionVars>>

\* An election and a loss, not both.
OneMisfortune == elected' + losses' <= 2

EndsInit ==
    /\ scene \in {"executor", "claim", "projection"}
    /\ ExecInit /\ RouteInit /\ ProjectionInit
    /\ scene # "executor" => \A t \in Tasks : key[t] = CHOOSE k \in Keys : TRUE
    /\ scene # "projection" => source = NoBuses

EndsNext ==
    /\ UNCHANGED scene
    /\ \/ scene = "executor" /\ ExecNext /\ UNCHANGED <<routeVars, projectionVars>>
       \/ scene = "claim" /\ RouteNext /\ UNCHANGED <<execVars, projectionVars>>
       \/ scene = "projection" /\ ProjectionNext /\ OneMisfortune /\ UNCHANGED <<execVars, routeVars>>

\* Fixes keep arriving; a match that can be written again and again is written
\* once; time passes. Nothing is assumed of a request: it may be lost.
ClaimFairness ==
    /\ WF_routeVars(scene = "claim" /\ \E r \in Replicas : Fix(r))
    /\ SF_routeVars(scene = "claim" /\ Commit)
    /\ WF_routeVars(scene = "claim" /\ Elapse /\ live'.aged # live.aged)

\* The elected worker goes on: its task, its recovery, every waiting key in
\* turn, and the timer that recovers again.
ProjectionFairness ==
    /\ WF_projectionVars(scene = "projection" /\ \E g \in Elected : Leads(g) /\ ViewStep(g))
    /\ \A k \in Nodes : SF_projectionVars(scene = "projection" /\ \E g \in Elected : Begin(g, k))
    /\ WF_projectionVars(scene = "projection" /\ \E g \in Elected : Leads(g) /\ ReplayStep(g))
    /\ SF_projectionVars(scene = "projection" /\ \E g \in Elected : Recover(g))

EndsSpec == EndsInit /\ [][EndsNext]_endVars /\ ClaimFairness /\ ProjectionFairness
=============================================================================
