----------------------------- MODULE ScanServer -----------------------------
(***************************************************************************)
(* What a browser can see of the scans of one workspace: the rows of       *)
(* scans and findings, the workers that write them, and the handlers that  *)
(* a page calls.  A handler is one step here: where its own awaits matter  *)
(* they are steps of ScanLifecycle, this module keeps the order in which   *)
(* rows change, which is what the pages race with.                         *)
(***************************************************************************)
EXTENDS Naturals, FiniteSets

CONSTANTS
  Scans,   \* scan ids, those not created yet included
  Mine,    \* the scans the signed-in user starts; the others are a colleague's
  Started, \* bound: the scans whose turn at the worker slot comes
  NoScan,  \* no scan: a page that is not mounted
  MaxFailures  \* bound: calls of the pages that fail on the way

ASSUME ScanServerAssumption ==
  /\ Mine \subseteq Scans
  /\ Started \subseteq Scans
  /\ NoScan \notin Scans
  /\ MaxFailures \in Nat

VARIABLES
  status,  \* scans.status; "none" before the insert, "deleted" afterwards
  triage,  \* triage_status of the scan's finding; "none" when it has none
  worker,  \* the scan's background task
  failures \* calls of the pages that have failed

server == <<status, triage, worker>>

Open     == {"queued", "running"}
Reported == {"completed", "incomplete"}
Closed   == Reported \cup {"failed"}
Triages  == {"open", "fixed", "false_positive"}

ServerTypeOK ==
  /\ status \in [Scans -> {"none", "deleted"} \cup Open \cup Closed]
  /\ triage \in [Scans -> Triages \cup {"none"}]
  /\ worker \in [Scans -> {"none", "waiting", "running", "reported", "gone"}]
  /\ failures \in 0..MaxFailures

ServerInit ==
  /\ status = [s \in Scans |-> "none"]
  /\ triage = [s \in Scans |-> "none"]
  /\ worker = [s \in Scans |-> "none"]
  /\ failures = 0

Exists(s) == status[s] \notin {"none", "deleted"}

\* PATCH on an id: no row, no change.
SetStatus(s, new) ==
  status' = IF Exists(s) THEN [status EXCEPT ![s] = new] ELSE status

\* request() of shared/api: a call answers or throws.
Answers(ok) ==
  /\ ok \/ failures < MaxFailures
  /\ failures' = IF ok THEN failures ELSE failures + 1

-----------------------------------------------------------------------------
(* The worker of a scan, and those who close its row in its place *)

\* The first patch of _run_and_persist, on the id alone: a row that was closed
\* while the worker waited for the slot is open again.
WorkerStarts(s) ==
  /\ worker[s] = "waiting" /\ s \in Started
  /\ worker' = [worker EXCEPT ![s] = "running"]
  /\ SetStatus(s, "running")
  /\ UNCHANGED triage

\* on_findings, when the scan found something.
WorkerReports(s) ==
  /\ worker[s] = "running"
  /\ worker' = [worker EXCEPT ![s] = "reported"]
  /\ \E found \in {"none", "open"} :
       triage' = IF Exists(s) THEN [triage EXCEPT ![s] = found] ELSE triage
  /\ UNCHANGED status

\* The terminal patch of _persist_completed_scan, or _mark_scan_failed.
WorkerEnds(s) ==
  /\ worker[s] = "reported"
  /\ \E verdict \in Closed : SetStatus(s, verdict)
  /\ worker' = [worker EXCEPT ![s] = "gone"]
  /\ UNCHANGED triage

\* The process is replaced, and its workers with it.
ProcessReplaced ==
  /\ \E s \in Scans : worker[s] \in {"waiting", "running", "reported"}
  /\ worker' = [s \in Scans |-> IF worker[s] = "none" THEN "none" ELSE "gone"]
  /\ UNCHANGED <<status, triage>>

\* reap_stuck_scans closes an open row by its age.  Time that passes is not
\* modelled: any open row may be old enough.
Reap(s) ==
  /\ status[s] \in Open
  /\ SetStatus(s, "failed")
  /\ UNCHANGED <<triage, worker>>

\* A colleague with findings.triage, in a browser of their own.
ColleagueTriages(s) ==
  /\ triage[s] # "none"
  /\ \E t \in Triages : triage' = [triage EXCEPT ![s] = t]
  /\ UNCHANGED <<status, worker>>

\* A colleague starts a scan that joins the workspace.
ColleagueScans(s) ==
  /\ s \notin Mine /\ status[s] = "none"
  /\ status' = [status EXCEPT ![s] = "queued"]
  /\ worker' = [worker EXCEPT ![s] = "waiting"]
  /\ UNCHANGED triage

ServerStep ==
  \/ ProcessReplaced
  \/ \E s \in Scans :
       \/ WorkerStarts(s) \/ WorkerReports(s) \/ WorkerEnds(s)
       \/ Reap(s) \/ ColleagueTriages(s) \/ ColleagueScans(s)

-----------------------------------------------------------------------------
(* What the handlers the pages call do to the rows *)

CreateRow(s) ==
  /\ s \in Mine /\ status[s] = "none"
  /\ status' = [status EXCEPT ![s] = "queued"]
  /\ worker' = [worker EXCEPT ![s] = "waiting"]
  /\ UNCHANGED triage

CancelRow(s) == SetStatus(s, "failed") /\ UNCHANGED <<triage, worker>>

\* Findings go with their scan, by foreign key.
DeleteRows(S) ==
  /\ status' = [s \in Scans |-> IF s \in S /\ Exists(s) THEN "deleted" ELSE status[s]]
  /\ triage' = [s \in Scans |-> IF s \in S THEN "none" ELSE triage[s]]
  /\ UNCHANGED worker

TriageRow(s, t) ==
  triage' = [triage EXCEPT ![s] = t] /\ UNCHANGED <<status, worker>>
=============================================================================
