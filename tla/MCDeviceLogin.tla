---------------------------- MODULE MCDeviceLogin ---------------------------
(* Instances of DeviceApproval: the first code is the CLI's, the others hooks. *)
EXTENDS DeviceApproval, TLC

MCFirst == CHOOSE c \in Codes : TRUE
MCKindOf == [c \in Codes |-> IF c = MCFirst THEN "cli" ELSE "hook"]
=============================================================================
