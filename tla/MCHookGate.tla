---------------------------- MODULE MCHookGate ----------------------------
(* Instances of HookGate: every scan is of the one target that is asked for. *)
EXTENDS HookGate

MCTargetOf == [s \in Scans |-> CHOOSE t \in Targets : TRUE]
=============================================================================
