--------------------------- MODULE ScanDetailPage ---------------------------
(***************************************************************************)
(* The page of one scan (views/scan-detail): it asks for the row at mount  *)
(* and on every tick of an interval, and once the row it got is closed it  *)
(* asks for the findings and stops the interval.  Nothing orders the       *)
(* answers of two ticks.                                                   *)
(***************************************************************************)
EXTENDS ScanServer

CONSTANTS
  Loads,  \* bound: the calls of load() that can be unanswered at once
  NoView  \* React state before the first answer: null

VARIABLES
  watched,  \* the scan the page is mounted on, NoScan when it is not
  shown,    \* the status of the `scan` state
  problems, \* the `findings` state: the triage status of the finding, "none" for []
  fetched,  \* setFindings was called
  polling,  \* intervalRef.current is not null
  loads,    \* the calls of load() in flight
  ending    \* the cancel request

detail == <<watched, shown, problems, fetched, polling, loads, ending>>

Idle == [step |-> "idle", status |-> "unread",
         problems |-> "unread", cancels |-> FALSE]

DetailTypeOK ==
  /\ watched \in Scans \cup {NoScan}
  /\ shown \in Open \cup Closed \cup {NoView}
  /\ problems \in Triages \cup {"none"}
  /\ fetched \in BOOLEAN
  /\ polling \in BOOLEAN
  /\ loads \in [Loads -> [step : {"idle", "row", "findings"},
                          status : Open \cup Closed \cup {"unread"},
                          problems : Triages \cup {"none", "unread"},
                          cancels : BOOLEAN]]
  /\ ending \in {"no", "asked", "written", "refused", "reloading"}

Unmounted ==
  /\ watched' = NoScan
  /\ shown' = NoView
  /\ problems' = "none"
  /\ fetched' = FALSE
  /\ polling' = FALSE
  /\ loads' = [l \in Loads |-> Idle]
  /\ ending' = "no"

DetailInit ==
  /\ watched = NoScan
  /\ shown = NoView
  /\ problems = "none"
  /\ fetched = FALSE
  /\ polling = FALSE
  /\ loads = [l \in Loads |-> Idle]
  /\ ending = "no"

\* The effect: a load, and the interval that starts the others.
Mount(s) ==
  /\ watched' = s
  /\ shown' = NoView
  /\ problems' = "none"
  /\ fetched' = FALSE
  /\ polling' = TRUE
  /\ \E l \in Loads : loads' = [k \in Loads |-> IF k = l THEN [Idle EXCEPT !.step = "row"] ELSE Idle]
  /\ ending' = "no"

-----------------------------------------------------------------------------
(* What the page offers and says *)

\* The buttons of the header and of the progress card.
Offers ==
  IF shown = NoView THEN {}
  ELSE {"rescan"}
    \cup (IF shown \in Reported THEN {"export", "explain"} ELSE {})
    \cup (IF shown \in Open /\ watched \in Mine THEN {"cancel"} ELSE {})

OpenProblems == problems = "open"

\* verdictLabel, its finding counts and risk score reduced to what a reader
\* concludes from the sentence.
VerdictLabel ==
  IF shown = "failed" THEN "failed"
  ELSE IF shown # "completed" THEN "not graded"
  ELSE IF OpenProblems THEN "problems" ELSE "by score"

\* The list of problems when it is empty without a filter.
SaysNoProblems == shown # NoView /\ problems = "none"

\* The alerts above the list.
Banners ==
  IF shown = NoView THEN {}
  ELSE (IF shown = "incomplete" THEN {"could not finish every check"} ELSE {})
    \cup (IF shown = "failed" THEN {"did not finish"} ELSE {})
    \cup (IF shown \in Open THEN {"progress"} ELSE {})

-----------------------------------------------------------------------------
(* load() *)

StartLoad(l, cancels) ==
  /\ loads[l] = Idle
  /\ loads' = [loads EXCEPT ![l] = [Idle EXCEPT !.step = "row", !.cancels = cancels]]

\* setInterval.
Tick(l) ==
  /\ polling
  /\ StartLoad(l, FALSE)
  /\ UNCHANGED <<watched, shown, problems, fetched, polling, ending, server, failures>>

\* The server answers the request for the row; the stages, asked for with it,
\* are not modelled.
ServeScan(l) ==
  /\ loads[l].step = "row" /\ loads[l].status = "unread" /\ Exists(watched)
  /\ loads' = [loads EXCEPT ![l].status = status[watched]]
  /\ UNCHANGED <<watched, shown, problems, fetched, polling, ending, server, failures>>

\* The end of load(), and of the cancel that awaits it.
EndLoad(l) ==
  /\ loads' = [loads EXCEPT ![l] = Idle]
  /\ ending' = IF loads[l].cancels THEN "no" ELSE ending

\* Mutated form of ShowRow: the interval is stopped as soon as a closed row
\* arrives, before the findings are asked for.
ShowRow_StopsHere(l) ==
  /\ loads[l].step = "row" /\ loads[l].status # "unread"
  /\ shown' = loads[l].status
  /\ polling' = (polling /\ loads[l].status \notin Closed)
  /\ IF loads[l].status \in Closed
     THEN loads' = [loads EXCEPT ![l].step = "findings"] /\ UNCHANGED ending
     ELSE EndLoad(l)
  /\ UNCHANGED <<watched, problems, fetched, server, failures>>

\* Mutated form of ShowRow: "incomplete" is not among the closed statuses.
ShowRow_NotIncomplete(l) ==
  /\ loads[l].step = "row" /\ loads[l].status # "unread"
  /\ shown' = loads[l].status
  /\ IF loads[l].status \in Closed \ {"incomplete"}
     THEN loads' = [loads EXCEPT ![l].step = "findings"] /\ UNCHANGED ending
     ELSE EndLoad(l)
  /\ UNCHANGED <<watched, problems, fetched, polling, server, failures>>

\* setScan and setStages, whatever is on the page by now.
ShowRow(l) ==
  /\ loads[l].step = "row" /\ loads[l].status # "unread"
  /\ shown' = loads[l].status
  /\ IF loads[l].status \in Closed
     THEN loads' = [loads EXCEPT ![l].step = "findings"] /\ UNCHANGED ending
     ELSE EndLoad(l)
  /\ UNCHANGED <<watched, problems, fetched, polling, server, failures>>

\* get_scan_findings answers with a list, empty for a scan that is gone.
ServeFindings(l) ==
  /\ loads[l].step = "findings" /\ loads[l].problems = "unread"
  /\ loads' = [loads EXCEPT ![l].problems = triage[watched]]
  /\ UNCHANGED <<watched, shown, problems, fetched, polling, ending, server, failures>>

\* setFindings, then clearInterval.
ShowFindings(l) ==
  /\ loads[l].step = "findings" /\ loads[l].problems # "unread"
  /\ problems' = loads[l].problems
  /\ fetched' = TRUE
  /\ polling' = FALSE
  /\ EndLoad(l)
  /\ UNCHANGED <<watched, shown, server, failures>>

\* The catch: loadError is set, the interval goes on.  A scan that is gone is
\* answered with 404.
LoadFails(l) ==
  /\ loads[l].step # "idle"
  /\ IF loads[l].step = "row" /\ ~Exists(watched) THEN UNCHANGED failures ELSE Answers(FALSE)
  /\ EndLoad(l)
  /\ UNCHANGED <<watched, shown, problems, fetched, polling, server>>

-----------------------------------------------------------------------------
(* cancelScan *)

CancelScan ==
  /\ "cancel" \in Offers /\ ending = "no"
  /\ ending' = "asked"
  /\ UNCHANGED <<watched, shown, problems, fetched, polling, loads, server, failures>>

ServeCancel ==
  /\ ending = "asked"
  /\ IF status[watched] \in Open
     THEN CancelRow(watched) /\ ending' = "written"
     ELSE UNCHANGED server /\ ending' = "refused"
  /\ UNCHANGED <<watched, shown, problems, fetched, polling, loads, failures>>

\* A refusal, or an answer that is lost, is a toast.
CancelRefused ==
  /\ \/ ending = "refused" /\ UNCHANGED failures
     \/ ending \in {"asked", "written"} /\ Answers(FALSE)
  /\ ending' = "no"
  /\ UNCHANGED <<watched, shown, problems, fetched, polling, loads, server>>

CancelAnswered(l) ==
  /\ ending = "written"
  /\ StartLoad(l, TRUE)
  /\ ending' = "reloading"
  /\ UNCHANGED <<watched, shown, problems, fetched, polling, server, failures>>

DetailAnswer(l) ==
  \/ ServeScan(l) \/ ShowRow(l)
  \/ ServeFindings(l) \/ ShowFindings(l) \/ CancelAnswered(l)

DetailStep ==
  \/ CancelScan \/ ServeCancel \/ CancelRefused
  \/ \E l \in Loads : Tick(l) \/ DetailAnswer(l) \/ LoadFails(l)
=============================================================================
