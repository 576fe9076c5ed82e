------------------------------ MODULE MCScanTab -----------------------------
(* Instances of ScanTab. *)
EXTENDS ScanTab, TLC
=============================================================================
