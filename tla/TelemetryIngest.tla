----------------------------- MODULE TelemetryIngest ------------------------------
(* The backend's door for telemetry, part by part: the delivery of samples by  *)
(* a tracker, the registry that says which tracker drives which bus, and the   *)
(* budget of a tracker's requests. They share no variable. Each behaviour      *)
(* follows one part, the scene.                                                *)
EXTENDS TelemetryDelivery, DeviceRegistry, RateBudget, TLC

VARIABLE scene

ingestVars == <<scene, deliveryVars, registryVars, budgetVars>>

\* The parts that are not the scene rest in one of their initial states.
IngestInit ==
    /\ scene \in {"delivery", "registry", "budget"}
    /\ DeliveryInit /\ RegistryInit /\ BudgetInit
    /\ scene # "delivery" => device.offset = CHOOSE o \in Offsets : TRUE
    /\ scene # "budget" => mode = "local"

IngestNext ==
    /\ UNCHANGED scene
    /\ \/ scene = "delivery" /\ DeliveryNext /\ UNCHANGED <<registryVars, budgetVars>>
       \/ scene = "registry" /\ RegistryNext /\ UNCHANGED <<deliveryVars, budgetVars>>
       \/ scene = "budget" /\ BudgetNext /\ UNCHANGED <<deliveryVars, registryVars>>

IngestSpec == IngestInit /\ [][IngestNext]_ingestVars

Symmetry == Permutations(Puts)
=============================================================================
