-------------------------------- MODULE AdminParts --------------------------------
(* What administrators and background workers do beside the rides: fenced      *)
(* writes of workers, long operations and the fleet mutex, the registry of     *)
(* drivers, deletion of accounts and of old rides, and the catalogue of routes. *)
(* They promise each other a mutex or a fence, which each part models itself,  *)
(* and share no variable: each behaviour follows one part, the scene.          *)
EXTENDS WorkerFence, FleetOperations, FleetRegistry, PrivacyDeletion, RideRetention, RouteEditor

VARIABLE scene

adminVars == <<scene, fenceVars, operationVars, registryVars, privacyVars, editorVars, retentionVars>>

\* The parts that are not the scene rest in one initial state.
AdminInit ==
    /\ scene \in {"fence", "operations", "registry", "privacy", "catalog", "editor", "retention"}
    /\ FenceInit /\ OperationInit /\ RegistryInit
    /\ PrivacyInit /\ EditorInit /\ RetentionInit
    /\ Exists <=> scene = "editor"
    /\ scene # "privacy" => leading = CHOOSE w \in Workers : TRUE
    /\ scene # "retention" => sweeper = CHOOSE c \in Cleaners : TRUE

\* Bound: nothing is drawn while a save is under way.
DrawnAtRest == \A n \in Editors : editor'[n].draft # editor[n].draft => editor[n].call = NoCall

AdminNext ==
    /\ UNCHANGED scene
    /\ \/ scene = "fence" /\ FenceNext
          /\ UNCHANGED <<operationVars, registryVars, privacyVars, editorVars, retentionVars>>
       \/ scene = "operations" /\ OperationNext
          /\ UNCHANGED <<fenceVars, registryVars, privacyVars, editorVars, retentionVars>>
       \/ scene = "registry" /\ RegistryNext
          /\ UNCHANGED <<fenceVars, operationVars, privacyVars, editorVars, retentionVars>>
       \/ scene = "privacy" /\ PrivacyNext
          /\ UNCHANGED <<fenceVars, operationVars, registryVars, editorVars, retentionVars>>
       \/ scene = "catalog" /\ CatalogNext
          /\ UNCHANGED <<fenceVars, operationVars, registryVars, privacyVars, pageVars, retentionVars>>
       \/ scene = "editor" /\ EditorNext /\ DrawnAtRest
          /\ UNCHANGED <<fenceVars, operationVars, registryVars, privacyVars, retentionVars>>
       \/ scene = "retention" /\ RetentionNext
          /\ UNCHANGED <<fenceVars, operationVars, registryVars, privacyVars, editorVars>>

AdminSpec == AdminInit /\ [][AdminNext]_adminVars
=============================================================================
