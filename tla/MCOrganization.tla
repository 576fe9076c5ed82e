--------------------------- MODULE MCOrganization ---------------------------
(* Instances of Organization: requests from anywhere, two at once. *)
EXTENDS Organization, TLC

MCGrants == {{}, {"members", "roles"}}
MCElsewhere == Operations

\* Sound: nothing tells two handlers, or two people other than the owner, apart.
MCSymmetry == Permutations(Slots) \cup Permutations(People \ {Owner})
=============================================================================
