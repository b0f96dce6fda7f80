--------------------------------- MODULE LiveParts ---------------------------------
(* What happens beside the lifecycle of a live bus: the writer of its records,  *)
(* the path it is matched to, its direction, its chat and the feedback on its   *)
(* rides. Each part models what it reads of the others, and they share no       *)
(* variable: a behaviour follows one part, the scene. The parts' bounds differ  *)
(* from scene to scene.                                                         *)
EXTENDS SerializedChangeWriter, RouteReroute, RideDirection, RideMessages

VARIABLE scene

liveVars == <<writerVars, routeVars, directionVars>>
saidVars == <<chatVars, feedbackVars>>
partVars == <<scene, liveVars, saidVars>>

\* reroute: one replica, rides and edits. overtaken: two replicas, one ride and
\* one route.
Scenes == {"writer", "reroute", "overtaken", "direction", "chat", "feedback"}

OneReplica ==
    \E m \in Replicas :
        /\ matching'.by \in {m, Nothing}
        /\ \A r \in Replicas \ {m} : queued'[r] = NoRequest /\ call'[r] = NoCall /\ known'[r] = 1
OneContext ==
    /\ live'.ride = 1 /\ config' = 1
    /\ \A r \in Replicas : queued'[r].kind # "departure"
    /\ \A v \in Versions : ~geometry'[v].found

\* Two of the replicas and requests are under way at once.
TwoUnderWay ==
    Cardinality({m \in Resolvers : resolver'[m] # AtRest}) + Cardinality({s \in Starts : starter'[s] # NoStart}) <= 2

PartsInit ==
    /\ scene \in Scenes
    /\ WriterInit /\ RouteInit /\ DirectionInit /\ ChatInit /\ FeedbackInit
    /\ scene # "feedback" => ahead = 0
    /\ scene # "writer" => \A t \in Tasks : key[t] = CHOOSE k \in Keys : TRUE

LiveNext ==
    \/ scene = "writer" /\ WriterNext /\ UNCHANGED <<routeVars, directionVars>>
    \/ scene = "reroute" /\ RouteNext /\ OneReplica /\ UNCHANGED <<writerVars, directionVars>>
    \/ scene = "overtaken" /\ RouteNext /\ OneContext /\ UNCHANGED <<writerVars, directionVars>>
    \/ scene = "direction" /\ DirectionNext /\ TwoUnderWay
       /\ UNCHANGED <<writerVars, routeVars>>

PartsNext ==
    /\ UNCHANGED scene
    /\ \/ LiveNext /\ UNCHANGED saidVars
       \/ scene = "chat" /\ ChatNext /\ UNCHANGED <<liveVars, feedbackVars>>
       \/ scene = "feedback" /\ FeedbackNext /\ UNCHANGED <<liveVars, chatVars>>

PartsSpec == PartsInit /\ [][PartsNext]_partVars

-----------------------------------------------------------------------------
\* What users say is stored as often as they meant it and no more often than the
\* limits allow, and nothing of it outlives its ride (ChatIsKept, FeedbackIsKept).
SaidOnce == ChatIsKept /\ FeedbackIsKept
=============================================================================
