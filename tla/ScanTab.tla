------------------------------- MODULE ScanTab ------------------------------
(***************************************************************************)
(* One browser tab of the dashboard that starts, watches, lists, deletes   *)
(* and triages scans, against the server, the workers and a colleague.     *)
(* Leaving a page discards its state and its unanswered calls: a setState  *)
(* on an unmounted component does nothing.                                 *)
(***************************************************************************)
EXTENDS ScanDetailPage, ScanListPages, FindingPage

vars == <<server, failures, detail, newPage, history, finding>>

TypeOK == ServerTypeOK /\ DetailTypeOK /\ ListTypeOK /\ FindingTypeOK

Init ==
  /\ ServerInit
  /\ DetailInit
  /\ NewInit
  /\ HistoryInit
  /\ FindingInit

-----------------------------------------------------------------------------
(* Navigation *)

ToNew ==
  /\ form = "unmounted"
  /\ NewIs("idle") /\ Unmounted /\ HistoryIs("unmounted") /\ FindingIs(NoScan)
  /\ UNCHANGED <<server, failures>>

ToHistory ==
  /\ listing = "unmounted"
  /\ HistoryIs("asked") /\ Unmounted /\ NewIs("unmounted") /\ FindingIs(NoScan)
  /\ UNCHANGED <<server, failures>>

\* The links to a scan: a row of the history, the answer of create_scan, the
\* way back from a finding.
ToDetail(s) ==
  /\ Listed(s) \/ (form = "leaving" /\ created = s) \/ opened = s
  /\ Mount(s) /\ NewIs("unmounted") /\ HistoryIs("unmounted") /\ FindingIs(NoScan)
  /\ UNCHANGED <<server, failures>>

ToFinding ==
  /\ watched # NoScan /\ problems # "none"
  /\ FindingIs(watched) /\ Unmounted /\ NewIs("unmounted") /\ HistoryIs("unmounted")
  /\ UNCHANGED <<server, failures>>

Next ==
  \/ ServerStep /\ UNCHANGED <<failures, detail, newPage, history, finding>>
  \/ DetailStep /\ UNCHANGED <<newPage, history, finding>>
  \/ NewStep /\ UNCHANGED <<detail, history, finding>>
  \/ HistoryStep /\ UNCHANGED <<detail, newPage, finding>>
  \/ FindingStep /\ UNCHANGED <<detail, newPage, history>>
  \/ ToNew \/ ToHistory \/ ToFinding
  \/ \E s \in Scans : ToDetail(s)

Spec == Init /\ [][Next]_vars

-----------------------------------------------------------------------------
(* Fairness: workers and the reaper go on, the interval ticks, calls are    *)
(* answered.  Nobody has to click.                                          *)

Rest == <<failures, newPage, history, finding>>

Fairness ==
  /\ \A s \in Scans :
       /\ WF_vars((WorkerStarts(s) \/ WorkerReports(s) \/ WorkerEnds(s)) /\ UNCHANGED <<detail, Rest>>)
       /\ WF_vars(worker[s] = "gone" /\ Reap(s) /\ UNCHANGED <<detail, Rest>>)
  /\ \A l \in Loads :
       /\ WF_vars(Tick(l) /\ UNCHANGED <<newPage, history, finding>>)
       /\ WF_vars(DetailAnswer(l) /\ UNCHANGED <<newPage, history, finding>>)

FairSpec == Spec /\ Fairness

-----------------------------------------------------------------------------
(* Safety *)

\* The detail page gives up polling only when it holds the findings of a scan
\* that was closed: a findings call that fails is made again.
StopsWithFindings == watched # NoScan /\ ~polling => fetched

\* Between the first click on "Scan" and the page of the scan, one row is
\* inserted; a second one takes an answer that was lost.
OneScanPerVisit == Cardinality(visit) <= 1 + failures

\* A scan leaves the history list only when its row is gone, through refused
\* deletions, two deletions at once, also of one row, lost answers, and a clear
\* of one's own scans among a colleague's.
HiddenIsDeleted ==
  [][\A s \in Scans : Listed(s) /\ listing' = "shown" /\ shelf'[s] = NotListed => ~Exists(s)]_vars

\* An explanation, once on the page, is not lost to a later answer.
ExplanationKept ==
  [][opened # NoScan /\ opened' = opened /\ panel \in Available => panel' \in Available]_vars

-----------------------------------------------------------------------------
(* Liveness *)

\* A detail page that stays open over an existing scan comes to rest with its
\* findings, whatever became of the worker.
PageSettles ==
  \A s \in Started :
    watched = s ~> watched # s \/ ~Exists(s) \/ (~polling /\ fetched)
=============================================================================
