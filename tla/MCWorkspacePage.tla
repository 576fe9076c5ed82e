--------------------------- MODULE MCWorkspacePage --------------------------
(* Instances of WorkspacePage.                                              *)
EXTENDS WorkspacePage, TLC

MCGrants == {{}, {"members", "roles"}}

MCSymmetry == Permutations(Loads) \cup Permutations(Pages)

\* The ghosts of Organization, which no guard and no property of this run
\* reads, do not tell states apart.
Unheld == [s \in Slots |-> [req[s] EXCEPT !.held = FALSE]]
MCView == <<role, invite, offered, live, grants, seats, Unheld, page>>
=============================================================================
