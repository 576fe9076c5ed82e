-------------------------- MODULE MCScanLifecycle --------------------------
(* Instances of ScanLifecycle: every scan is of the one target, so that each *)
(* finished scan overwrites the hook_cache row of the one before.            *)
EXTENDS ScanLifecycle, TLC

MCTargetOf == [s \in Scans |-> CHOOSE t \in Targets : TRUE]

\* Sound for the safety runs: nothing orders the scans.
MCSymmetry == Permutations(Scans)
=============================================================================
