--------------------------- MODULE ScanListPages ----------------------------
(***************************************************************************)
(* The page that starts scans (views/scan-new) and the page that lists     *)
(* them and deletes them (views/scan-history).  The signed-in user holds   *)
(* scans.run and scans.delete; without them the buttons are not there.     *)
(***************************************************************************)
EXTENDS ScanServer

CONSTANT Presses \* bound: deletions under way at once, of one scan or of several

VARIABLES
  form,       \* the submission of the new-scan page; "unmounted" elsewhere
  submitting, \* its `submitting` state
  created,    \* the scan the answer of create_scan named
  visit,      \* scans inserted since the page was mounted
  listing,    \* where the load of the history page is
  shelf,      \* `summaries`: what is listed of each scan
  removals,   \* the delete requests in flight, by scan and call
  deletingId, \* its `deletingId` state
  clearing    \* the clear request

newPage == <<form, submitting, created, visit>>
history == <<listing, shelf, removals, deletingId, clearing>>

Requests == {"no", "asked", "done", "refused"}
NotListed == [status |-> "none", problems |-> "none"]

ListTypeOK ==
  /\ form \in {"unmounted", "idle", "asked", "created", "refused", "leaving"}
  /\ submitting \in BOOLEAN
  /\ created \in Scans \cup {NoScan}
  /\ visit \in SUBSET Scans
  /\ listing \in {"unmounted", "asked", "detailing", "shown", "failed"}
  /\ shelf \in [Scans -> [status : Open \cup Closed \cup {"none"},
                          problems : Triages \cup {"none", "unread"}]]
  /\ removals \in [Scans -> [Presses -> Requests]]
  /\ deletingId \in Scans \cup {NoScan}
  /\ clearing \in Requests

NewInit == form = "unmounted" /\ submitting = FALSE /\ created = NoScan /\ visit = {}

NewIs(step) == form' = step /\ submitting' = FALSE /\ created' = NoScan /\ visit' = {}

HistoryInit ==
  /\ listing = "unmounted"
  /\ shelf = [s \in Scans |-> NotListed]
  /\ removals = [s \in Scans |-> [p \in Presses |-> "no"]]
  /\ deletingId = NoScan
  /\ clearing = "no"

HistoryIs(step) ==
  /\ listing' = step
  /\ shelf' = [s \in Scans |-> NotListed]
  /\ removals' = [s \in Scans |-> [p \in Presses |-> "no"]]
  /\ deletingId' = NoScan
  /\ clearing' = "no"

-----------------------------------------------------------------------------
(* New scan *)

Modes == {"github_repo", "live_mcp_server", "config_paste"}

\* What validateTarget can tell apart: a page of github.com with an owner and
\* a name, another http or https URL, JSON, and everything else.
Inputs == {"empty", "text", "json", "url", "repository"}
ValidTarget(mode, input) ==
  \/ mode = "config_paste" /\ input = "json"
  \/ mode = "live_mcp_server" /\ input \in {"url", "repository"}
  \/ mode = "github_repo" /\ input = "repository"

Submit ==
  /\ form \in {"idle", "leaving"} /\ ~submitting
  /\ \E mode \in Modes, input \in Inputs : ValidTarget(mode, input)
  /\ form' = "asked"
  /\ submitting' = TRUE
  /\ UNCHANGED <<created, visit, server, failures>>

ServeCreate ==
  /\ form = "asked"
  /\ UNCHANGED <<submitting, failures>>
  /\ \/ /\ form' = "refused"
        /\ UNCHANGED <<created, visit, server>>
     \/ \E s \in Mine : /\ CreateRow(s)
                        /\ created' = s
                        /\ visit' = visit \cup {s}
                        /\ form' = "created"

\* Mutated form of CreateAnswered: setSubmitting(false) in a `finally`.
CreateAnswered_Finally ==
  /\ form = "created"
  /\ form' = "leaving"
  /\ submitting' = FALSE
  /\ UNCHANGED <<created, visit, server, failures>>

\* router.push: the page stays until the next one is ready, its button off.
CreateAnswered ==
  /\ form = "created"
  /\ form' = "leaving"
  /\ UNCHANGED <<submitting, created, visit, server, failures>>

\* 402, 403, 429, or an answer that never came: the button is on again.
CreateFailed ==
  /\ \/ form = "refused" /\ UNCHANGED failures
     \/ form \in {"asked", "created"} /\ Answers(FALSE)
  /\ form' = "idle"
  /\ submitting' = FALSE
  /\ created' = NoScan
  /\ UNCHANGED <<visit, server>>

NewStep == Submit \/ ServeCreate \/ CreateAnswered \/ CreateFailed

-----------------------------------------------------------------------------
(* History *)

Listed(s) == listing = "shown" /\ shelf[s] # NotListed

\* listScans answers with every row of the workspace.
ServeList ==
  /\ listing = "asked"
  /\ shelf' = [s \in Scans |-> IF Exists(s) THEN [status |-> status[s], problems |-> "unread"]
                               ELSE NotListed]
  /\ listing' = "detailing"
  /\ UNCHANGED <<removals, deletingId, clearing, server, failures>>

\* getScanFindings(...).catch(() => []): a call that failed counts as no findings.
ServeProblems(s) ==
  /\ listing = "detailing" /\ shelf[s].problems = "unread"
  /\ \E ok \in BOOLEAN :
       /\ Answers(ok)
       /\ shelf' = [shelf EXCEPT ![s].problems = IF ok THEN triage[s] ELSE "none"]
  /\ UNCHANGED <<listing, removals, deletingId, clearing, server>>

ShowList ==
  /\ listing = "detailing"
  /\ \A s \in Scans : shelf[s].problems # "unread"
  /\ listing' = "shown"
  /\ UNCHANGED <<shelf, removals, deletingId, clearing, server, failures>>

ListFails ==
  /\ listing = "asked"
  /\ Answers(FALSE)
  /\ listing' = "failed"
  /\ UNCHANGED <<shelf, removals, deletingId, clearing, server>>

\* The last row asked for is marked as being deleted, its button off; the
\* buttons of the others are on, of one whose deletion is under way as well.
DeleteScan(s, p) ==
  /\ Listed(s) /\ deletingId # s
  /\ \A o \in Scans : removals[o][p] = "no"
  /\ removals' = [removals EXCEPT ![s][p] = "asked"]
  /\ deletingId' = s
  /\ UNCHANGED <<listing, shelf, clearing, server, failures>>

\* An open row is refused until it is old enough to be abandoned.
ServeDelete(s, p) ==
  /\ removals[s][p] = "asked"
  /\ \/ /\ ~Exists(s) \/ status[s] \in Open
        /\ removals' = [removals EXCEPT ![s][p] = "refused"]
        /\ UNCHANGED server
     \/ /\ Exists(s)
        /\ removals' = [removals EXCEPT ![s][p] = "done"]
        /\ DeleteRows({s})
  /\ UNCHANGED <<listing, shelf, deletingId, clearing, failures>>

\* Mutated form of DeleteAnswered: the row leaves the list whatever was answered.
DeleteAnswered_Always(s, p) ==
  /\ removals[s][p] \in {"done", "refused"}
  /\ UNCHANGED failures
  /\ shelf' = [shelf EXCEPT ![s] = NotListed]
  /\ removals' = [removals EXCEPT ![s][p] = "no"]
  /\ deletingId' = NoScan
  /\ UNCHANGED <<listing, clearing, server>>

\* The row leaves the list once the deletion is confirmed; a refusal or a lost
\* answer is a toast.  `finally` clears the mark, even that of another row.
DeleteAnswered(s, p) ==
  /\ \/ /\ removals[s][p] = "done"
        /\ shelf' = [shelf EXCEPT ![s] = NotListed]
        /\ UNCHANGED failures
     \/ removals[s][p] = "refused" /\ UNCHANGED <<shelf, failures>>
     \/ removals[s][p] \in {"asked", "done"} /\ Answers(FALSE) /\ UNCHANGED shelf
  /\ removals' = [removals EXCEPT ![s][p] = "no"]
  /\ deletingId' = NoScan
  /\ UNCHANGED <<listing, clearing, server>>

ClearHistory ==
  /\ clearing = "no" /\ \E s \in Mine : Listed(s)
  /\ clearing' = "asked"
  /\ UNCHANGED <<listing, shelf, removals, deletingId, server, failures>>

\* All of the caller's rows or none.
ServeClear ==
  /\ clearing = "asked"
  /\ IF \E s \in Mine : status[s] \in Open
     THEN UNCHANGED server /\ clearing' = "refused"
     ELSE DeleteRows(Mine) /\ clearing' = "done"
  /\ UNCHANGED <<listing, shelf, removals, deletingId, failures>>

\* Only the caller's own scans leave the list.
ClearAnswered ==
  /\ \/ /\ clearing = "done"
        /\ shelf' = [s \in Scans |-> IF s \in Mine THEN NotListed ELSE shelf[s]]
        /\ UNCHANGED failures
     \/ clearing = "refused" /\ UNCHANGED <<shelf, failures>>
     \/ clearing \in {"asked", "done"} /\ Answers(FALSE) /\ UNCHANGED shelf
  /\ clearing' = "no"
  /\ UNCHANGED <<listing, removals, deletingId, server>>

HistoryStep ==
  \/ ServeList \/ ShowList \/ ListFails
  \/ ClearHistory \/ ServeClear \/ ClearAnswered
  \/ \E s \in Scans :
       \/ ServeProblems(s)
       \/ \E p \in Presses : DeleteScan(s, p) \/ ServeDelete(s, p) \/ DeleteAnswered(s, p)
=============================================================================
