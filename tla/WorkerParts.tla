-------------------------------- MODULE WorkerParts --------------------------------
(* The election of the worker, and what an elected worker does for the public: *)
(* LiveProjection takes from WorkerLease that workers follow each other and    *)
(* that a deposed one only commits what it had begun. They share no variable:  *)
(* a behaviour follows one of them, the scene.                                 *)
EXTENDS WorkerLease, LiveProjection, TLC

VARIABLE scene

workerVars == <<scene, leaseVars, projectionVars>>

Symmetry == Permutations(Procs)

\* The projection of one node by two workers, or of two nodes by one.
OneNode == \E n \in Nodes : \A k \in Nodes \ {n} : source'[k] = Gone /\ k \notin worker'[1].pending
OneWorker == elected' = 1

WorkerInit ==
    /\ scene \in {"lease", "elections", "nodes"}
    /\ LeaseInit /\ ProjectionInit
    /\ scene # "nodes" => source = NoBuses

WorkerNext ==
    /\ UNCHANGED scene
    /\ \/ scene = "lease" /\ LeaseNext /\ UNCHANGED projectionVars
       \/ scene = "elections" /\ ProjectionNext /\ OneNode /\ UNCHANGED leaseVars
       \/ scene = "nodes" /\ ProjectionNext /\ OneWorker /\ UNCHANGED leaseVars

WorkerSpec == WorkerInit /\ [][WorkerNext]_workerVars
=============================================================================
