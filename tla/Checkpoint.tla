----------------------------- MODULE Checkpoint -----------------------------
(* What the tracker's flash journal promises (hardware/include/                *)
(* checkpoint_journal.h:48): the sample confirmed last stays readable until a  *)
(* later one takes its place, whatever is torn, erased or cut in between.      *)
CONSTANT Samples

VARIABLES
    confirmed,  \* the sample confirmed last; 0 before the first
    maybe       \* samples appended since, of which nobody knows whether they hold

checkpointVars == <<confirmed, maybe>>

CheckpointInit == confirmed = 0 /\ maybe = {}

\* append(): confirmed, or an attempt that may have reached the flash and may
\* have destroyed earlier attempts.
Save(n) ==
    \/ confirmed' = n /\ maybe' = {}
    \/ maybe' \in SUBSET (maybe \cup {n}) /\ UNCHANGED confirmed

\* initialize() after a power cut finds the confirmed sample or a later attempt.
Boot ==
    /\ confirmed' \in {confirmed} \cup maybe
    /\ maybe' \in SUBSET maybe

CheckpointNext == Boot \/ \E n \in Samples : Save(n)
CheckpointSpec == CheckpointInit /\ [][CheckpointNext]_checkpointVars
=============================================================================
