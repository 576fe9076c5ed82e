---------------------------- MODULE VerdictBoard ----------------------------
(***************************************************************************)
(* What the scan service promises about verdicts, with no worker, request  *)
(* or database in sight: each scan has a place on a board.  A verdict is   *)
(* published there at most once.  It may be withdrawn (the scan is closed  *)
(* as failed, deleted, or its worker is gone), and a place that has been   *)
(* withdrawn stays empty: no verdict is replaced by another, and none      *)
(* comes back.                                                             *)
(***************************************************************************)
CONSTANTS
  Scans,
  Verdicts  \* "pending" and "void" are not among them

VARIABLE board

Init == board = [s \in Scans |-> "pending"]

Publish(s, v) == board[s] = "pending" /\ board' = [board EXCEPT ![s] = v]

\* Several places at once: history is cleared, or the process is replaced.
Withdraw(S) == board' = [s \in Scans |-> IF s \in S THEN "void" ELSE board[s]]

Next ==
  \/ \E s \in Scans, v \in Verdicts : Publish(s, v)
  \/ \E S \in SUBSET Scans : Withdraw(S)

Spec == Init /\ [][Next]_board
=============================================================================
