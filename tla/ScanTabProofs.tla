--------------------------- MODULE ScanTabProofs ---------------------------
(***************************************************************************)
(* Theorems about ScanTab for any scans, whoever started them, any number  *)
(* of calls of load() at once and of calls that fail: the type invariant,  *)
(* what the pages stop at and insert, and what a step may not take away.   *)
(***************************************************************************)
EXTENDS ScanTab, FiniteSetTheorems, TLAPS

RowsTypeOK ==
  /\ status \in [Scans -> {"none", "deleted"} \cup Open \cup Closed]
  /\ triage \in [Scans -> Triages \cup {"none"}]
  /\ worker \in [Scans -> {"none", "waiting", "running", "reported", "gone"}]

FailuresOK == failures \in Nat /\ failures <= MaxFailures

NewTypeOK ==
  /\ form \in {"unmounted", "idle", "asked", "created", "refused", "leaving"}
  /\ submitting \in BOOLEAN
  /\ created \in Scans \cup {NoScan}
  /\ visit \in SUBSET Scans

Shelved == [status : Open \cup Closed \cup {"none"}, problems : Triages \cup {"none", "unread"}]

HistoryTypeOK ==
  /\ listing \in {"unmounted", "asked", "detailing", "shown", "failed"}
  /\ shelf \in [Scans -> Shelved]
  /\ removals \in [Scans -> [Presses -> Requests]]
  /\ deletingId \in Scans \cup {NoScan}
  /\ clearing \in Requests

\* A call of load().
Calls == [step : {"idle", "row", "findings"}, status : Open \cup Closed \cup {"unread"},
          problems : Triages \cup {"none", "unread"}, cancels : BOOLEAN]

\* The tab shows one page.
OnePage ==
  /\ form # "unmounted" => listing = "unmounted" /\ watched = NoScan /\ opened = NoScan
  /\ listing # "unmounted" => watched = NoScan /\ opened = NoScan
  /\ watched # NoScan => opened = NoScan

\* A page that is not there has no requests.
DetailRests ==
  watched = NoScan => shown = NoView /\ ~polling /\ ending = "no" /\ \A l \in Loads : loads[l] = Idle
HistoryRests == listing = "unmounted" => clearing = "no" /\ \A s \in Scans, p \in Presses : removals[s][p] = "no"
FindingRests == opened = NoScan => card = "null" /\ triaging.step = "no" /\ explaining = "no"

\* What the visit to the new-scan page may have inserted by now.  From the click
\* until the page is left, or the call has failed, the button is off.
VisitCounted ==
  /\ IsFiniteSet(visit)
  /\ form = "unmounted" => visit = {}
  /\ form \in {"asked", "created", "leaving"} => submitting
  /\ Cardinality(visit) <= IF form \in {"created", "leaving"} THEN 1 + failures ELSE failures

\* The answers of deletions that are on their way say what is so.
DeletionsTrue ==
  /\ \A s \in Scans, q \in Presses : removals[s][q] = "done" => status[s] = "deleted"
  /\ clearing = "done" => \A s \in Mine : ~Exists(s)

\* A short explanation is asked for while there is none.
BriefFirst == explaining = "brief" => panel \notin Available

DetailInv  == DetailTypeOK /\ DetailRests /\ StopsWithFindings
NewInv     == NewTypeOK /\ VisitCounted
HistoryInv == HistoryTypeOK /\ HistoryRests /\ DeletionsTrue
FindingInv == FindingTypeOK /\ FindingRests /\ BriefFirst

IInv ==
  /\ RowsTypeOK /\ FailuresOK
  /\ OnePage
  /\ DetailInv /\ NewInv /\ HistoryInv /\ FindingInv

LEMMA InvTypes == IInv => TypeOK
BY ScanServerAssumption DEF IInv, TypeOK, ServerTypeOK, RowsTypeOK, FailuresOK, DetailInv, NewInv, HistoryInv,
   FindingInv, ListTypeOK, NewTypeOK, HistoryTypeOK, Shelved

-----------------------------------------------------------------------------
(* Rows and failures *)

\* A row that was deleted stays so, whoever writes.
DeletedLast == \A s \in Scans : status[s] = "deleted" => status'[s] = "deleted"

\* Rows of the user that are not there stay away.
NoneOfMine == \A s \in Mine : ~Exists(s) => ~(Exists(s)')

RowsStep == RowsTypeOK' /\ DeletedLast /\ NoneOfMine

LEMMA SetStatusRows ==
  ASSUME RowsTypeOK, NEW s \in Scans, NEW new \in Open \cup Closed, SetStatus(s, new)
  PROVE  /\ status' \in [Scans -> {"none", "deleted"} \cup Open \cup Closed]
         /\ DeletedLast /\ NoneOfMine
<1>1. new \notin {"none", "deleted"}
  BY DEF Open, Closed, Reported
<1>2. QED BY <1>1, ScanServerAssumption DEF SetStatus, RowsTypeOK, DeletedLast, NoneOfMine, Exists

LEMMA SameRows ==
  ASSUME RowsTypeOK, UNCHANGED server
  PROVE  RowsStep
BY ScanServerAssumption DEF server, RowsStep, RowsTypeOK, DeletedLast, NoneOfMine, Exists

LEMMA CreateRows ==
  ASSUME RowsTypeOK, NEW s \in Scans, status[s] = "none",
         status' = [status EXCEPT ![s] = "queued"],
         worker' = [worker EXCEPT ![s] = "waiting"], UNCHANGED triage
  PROVE  RowsTypeOK' /\ DeletedLast /\ (s \notin Mine => NoneOfMine)
<1>1. RowsTypeOK' /\ DeletedLast
  BY DEF RowsTypeOK, DeletedLast, Open
<1>2. s \notin Mine => NoneOfMine
  BY ScanServerAssumption DEF RowsTypeOK, NoneOfMine, Exists
<1>3. QED BY <1>1, <1>2

LEMMA DeleteRowsRows ==
  ASSUME RowsTypeOK, NEW S, DeleteRows(S)
  PROVE  /\ RowsStep
         /\ \A s \in S \cap Scans : ~(Exists(s)') /\ (Exists(s) => status'[s] = "deleted")
BY ScanServerAssumption DEF DeleteRows, RowsStep, RowsTypeOK, DeletedLast, NoneOfMine, Exists

LEMMA TriageRows ==
  ASSUME RowsTypeOK, NEW s \in Scans, NEW t \in Triages, TriageRow(s, t)
  PROVE  RowsStep
BY ScanServerAssumption DEF TriageRow, RowsStep, RowsTypeOK, DeletedLast, NoneOfMine, Exists

LEMMA ServerRows ==
  ASSUME RowsTypeOK, ServerStep
  PROVE  RowsStep
<1> USE DEF RowsStep
<1>0. ASSUME UNCHANGED status PROVE DeletedLast /\ NoneOfMine
  BY <1>0, ScanServerAssumption DEF DeletedLast, NoneOfMine, Exists
<1>1. CASE ProcessReplaced
  BY <1>0, <1>1 DEF ProcessReplaced, RowsTypeOK
<1>2. ASSUME NEW s \in Scans, WorkerStarts(s) PROVE RowsStep
  BY <1>2, SetStatusRows DEF WorkerStarts, RowsTypeOK, Open
<1>3. ASSUME NEW s \in Scans, WorkerReports(s) PROVE RowsStep
  BY <1>0, <1>3 DEF WorkerReports, RowsTypeOK, Triages
<1>4. ASSUME NEW s \in Scans, WorkerEnds(s) PROVE RowsStep
  BY <1>4, SetStatusRows DEF WorkerEnds, RowsTypeOK
<1>5. ASSUME NEW s \in Scans, Reap(s) PROVE RowsStep
  BY <1>5, SetStatusRows DEF Reap, RowsTypeOK, Closed
<1>6. ASSUME NEW s \in Scans, ColleagueTriages(s) PROVE RowsStep
  BY <1>0, <1>6 DEF ColleagueTriages, RowsTypeOK
<1>7. ASSUME NEW s \in Scans, ColleagueScans(s) PROVE RowsStep
  BY <1>7, CreateRows DEF ColleagueScans
<1>8. QED BY <1>1, <1>2, <1>3, <1>4, <1>5, <1>6, <1>7 DEF ServerStep

FailuresGrow == FailuresOK' /\ failures <= failures'

LEMMA SameFailures == FailuresOK /\ UNCHANGED failures => FailuresGrow
BY ScanServerAssumption DEF FailuresOK, FailuresGrow

LEMMA AnswersGrow ==
  ASSUME FailuresOK, NEW ok, Answers(ok)
  PROVE  FailuresGrow
BY ScanServerAssumption DEF FailuresOK, FailuresGrow, Answers

LEMMA AnswerLost ==
  ASSUME FailuresOK, Answers(FALSE)
  PROVE  FailuresGrow /\ failures' = failures + 1
BY ScanServerAssumption DEF FailuresOK, FailuresGrow, Answers

-----------------------------------------------------------------------------
(* Pages that a step leaves alone, leaves or opens *)

LEMMA DetailKept == DetailInv /\ UNCHANGED detail => DetailInv'
BY DEF detail, DetailInv, DetailTypeOK, DetailRests, StopsWithFindings

LEMMA FindingKept == FindingInv /\ UNCHANGED finding => FindingInv'
BY DEF finding, FindingInv, FindingTypeOK, FindingRests, BriefFirst

LEMMA HistoryKept ==
  ASSUME HistoryInv, UNCHANGED history, DeletedLast, clearing = "done" => NoneOfMine
  PROVE  HistoryInv'
<1>1. HistoryTypeOK' /\ HistoryRests'
  BY DEF history, HistoryInv, HistoryTypeOK, HistoryRests
<1>2. DeletionsTrue'
  BY DEF history, HistoryInv, DeletionsTrue, DeletedLast, NoneOfMine
<1>3. QED BY <1>1, <1>2 DEF HistoryInv

\* The count allows as much or more, for as many rows.
LEMMA CountKept ==
  ASSUME NewInv, FailuresOK, FailuresGrow, UNCHANGED visit
  PROVE  /\ Cardinality(visit') \in Nat
         /\ Cardinality(visit') <= 1 + failures'
         /\ form \notin {"created", "leaving"} => Cardinality(visit') <= failures'
         /\ failures' > failures => Cardinality(visit') <= failures'
<1>1. Cardinality(visit) \in Nat
  BY FS_CardinalityType DEF NewInv, VisitCounted
<1>2. /\ failures \in Nat /\ failures' \in Nat /\ failures <= failures'
  BY DEF FailuresOK, FailuresGrow
<1>3. CASE form \in {"created", "leaving"}
  <2>1. Cardinality(visit) <= 1 + failures
    BY <1>3 DEF NewInv, VisitCounted
  <2>2. QED BY <1>1, <1>2, <1>3, <2>1
<1>4. CASE form \notin {"created", "leaving"}
  <2>1. Cardinality(visit) <= failures
    BY <1>4 DEF NewInv, VisitCounted
  <2>2. QED BY <1>1, <1>2, <1>4, <2>1
<1>5. QED BY <1>3, <1>4

LEMMA NewKept ==
  ASSUME NewInv, FailuresOK, FailuresGrow, UNCHANGED newPage
  PROVE  NewInv'
<1>1. UNCHANGED <<form, submitting, created, visit>>
  BY DEF newPage
<1>2. NewTypeOK'
  BY <1>1 DEF NewInv, NewTypeOK
<1>3. VisitCounted'
  BY <1>1, CountKept DEF NewInv, VisitCounted
<1>4. QED BY <1>2, <1>3 DEF NewInv

LEMMA IdleCall == Idle \in Calls /\ Idle.step = "idle"
BY DEF Idle, Calls

LEMMA UnmountedInv == Unmounted => DetailInv' /\ watched' = NoScan
BY IdleCall DEF Unmounted, DetailInv, DetailTypeOK, DetailRests, StopsWithFindings, Calls

LEMMA MountInv ==
  ASSUME NEW s \in Scans, Mount(s)
  PROVE  DetailInv' /\ watched' = s /\ s # NoScan
<1>1. s # NoScan /\ watched' = s /\ polling' = TRUE
  BY ScanServerAssumption DEF Mount
<1>2. [Idle EXCEPT !.step = "row"] \in Calls
  BY DEF Idle, Calls
<1>3. loads' \in [Loads -> Calls]
  BY <1>2, IdleCall DEF Mount
<1>4. DetailTypeOK'
  BY <1>3 DEF Mount, DetailTypeOK, Calls
<1>5. QED BY <1>1, <1>4 DEF DetailInv, DetailRests, StopsWithFindings

LEMMA NewIsInv ==
  ASSUME FailuresOK', NEW step \in {"idle", "unmounted"}, NewIs(step)
  PROVE  NewInv' /\ form' = step
<1>1. form' = step /\ submitting' = FALSE /\ created' = NoScan /\ visit' = {}
  BY DEF NewIs
<1>2. IsFiniteSet(visit') /\ Cardinality(visit') = 0
  BY <1>1, FS_EmptySet
<1>3. NewTypeOK'
  BY <1>1 DEF NewTypeOK
<1>4. form' \notin {"created", "leaving"}
  BY <1>1
<1>5. VisitCounted'
  BY <1>1, <1>2, <1>4 DEF VisitCounted, FailuresOK
<1>6. QED BY <1>1, <1>3, <1>5 DEF NewInv

LEMMA NotListedShelved == NotListed \in Shelved
BY DEF NotListed, Shelved

LEMMA HistoryIsInv ==
  ASSUME NEW step \in {"asked", "unmounted"}, HistoryIs(step)
  PROVE  HistoryInv' /\ listing' = step
BY NotListedShelved DEF HistoryIs, HistoryInv, HistoryTypeOK, HistoryRests, DeletionsTrue, Requests

LEMMA FindingIsInv ==
  ASSUME NEW s \in Scans \cup {NoScan}, FindingIs(s)
  PROVE  FindingInv' /\ opened' = s
BY DEF FindingIs, FindingInv, FindingTypeOK, FindingRests, BriefFirst, NoTriage, Triages, Panels, Available

-----------------------------------------------------------------------------
(* The page of a scan *)

LEMMA CallTypes ==
  ASSUME DetailInv, NEW l \in Loads
  PROVE  loads \in [Loads -> Calls] /\ loads[l] \in Calls
BY DEF DetailInv, DetailTypeOK, Calls

\* A call of load() that is answered, fails or ends keeps its shape.
LEMMA CallSteps ==
  ASSUME NEW call \in Calls, NEW row \in Open \cup Closed, NEW found \in Triages \cup {"none"},
         NEW cancels \in BOOLEAN
  PROVE  /\ [call EXCEPT !.status = row] \in Calls
         /\ [call EXCEPT !.step = "findings"] \in Calls
         /\ [call EXCEPT !.problems = found] \in Calls
         /\ [Idle EXCEPT !.step = "row", !.cancels = cancels] \in Calls
BY DEF Idle, Calls

\* What a step of the page may do to its own state.
LEMMA DetailParts ==
  ASSUME DetailInv, watched # NoScan, UNCHANGED watched,
         shown' \in Open \cup Closed \cup {NoView}, problems' \in Triages \cup {"none"},
         loads' \in [Loads -> Calls],
         ending' \in {"no", "asked", "written", "refused", "reloading"},
         \/ fetched' = fetched /\ polling' = polling
         \/ fetched' = TRUE /\ polling' = FALSE
  PROVE  DetailInv'
BY DEF DetailInv, DetailTypeOK, DetailRests, StopsWithFindings, Calls

LEMMA EndLoadType ==
  ASSUME DetailInv, NEW l \in Loads, EndLoad(l)
  PROVE  /\ loads' \in [Loads -> Calls]
         /\ ending' \in {"no", "asked", "written", "refused", "reloading"}
BY CallTypes, IdleCall DEF EndLoad, DetailInv, DetailTypeOK

LEMMA DetailKeeps ==
  ASSUME RowsTypeOK, FailuresOK, DetailInv, DetailStep
  PROVE  DetailInv' /\ RowsStep /\ FailuresGrow /\ UNCHANGED watched
<1>0. /\ watched \in Scans \cup {NoScan}
      /\ shown \in Open \cup Closed \cup {NoView} /\ problems \in Triages \cup {"none"}
      /\ loads \in [Loads -> Calls]
      /\ ending \in {"no", "asked", "written", "refused", "reloading"}
  BY DEF DetailInv, DetailTypeOK, Calls
<1>1. ASSUME NEW l \in Loads, Tick(l) PROVE DetailInv' /\ RowsStep /\ FailuresGrow /\ UNCHANGED watched
  <2>1. watched # NoScan
    BY <1>1 DEF Tick, DetailInv, DetailRests
  <2>2. loads' \in [Loads -> Calls]
    BY <1>0, <1>1, CallSteps, IdleCall DEF Tick, StartLoad, Open, Triages, Idle, Calls
  <2>3. DetailInv'
    BY <1>0, <1>1, <2>1, <2>2, DetailParts DEF Tick
  <2>4. QED BY <1>1, <2>3, SameRows, SameFailures DEF Tick
<1>2. ASSUME NEW l \in Loads, ServeScan(l) PROVE DetailInv' /\ RowsStep /\ FailuresGrow /\ UNCHANGED watched
  <2>1. watched # NoScan
    BY <1>2, IdleCall DEF ServeScan, DetailInv, DetailRests
  <2>2. status[watched] \in Open \cup Closed
    BY <1>0, <1>2, <2>1 DEF ServeScan, Exists, RowsTypeOK
  <2>3. [loads[l] EXCEPT !.status = status[watched]] \in Calls
    BY <1>0, <2>2 DEF Calls
  <2>4. loads' \in [Loads -> Calls]
    BY <1>0, <1>2, <2>3 DEF ServeScan
  <2>5. DetailInv'
    BY <1>0, <1>2, <2>1, <2>4, DetailParts DEF ServeScan
  <2>6. QED BY <1>2, <2>5, SameRows, SameFailures DEF ServeScan
<1>3. ASSUME NEW l \in Loads, ShowRow(l) PROVE DetailInv' /\ RowsStep /\ FailuresGrow /\ UNCHANGED watched
  <2>1. watched # NoScan
    BY <1>3, IdleCall DEF ShowRow, DetailInv, DetailRests
  <2>2. shown' \in Open \cup Closed
    BY <1>0, <1>3 DEF ShowRow, Calls
  <2>3. [loads[l] EXCEPT !.step = "findings"] \in Calls
    BY <1>0 DEF Calls
  <2>4. /\ loads' \in [Loads -> Calls]
        /\ ending' \in {"no", "asked", "written", "refused", "reloading"}
    <3>1. CASE loads[l].status \in Closed
      BY <1>0, <1>3, <2>3, <3>1 DEF ShowRow
    <3>2. CASE loads[l].status \notin Closed
      BY <1>3, <3>2, EndLoadType DEF ShowRow
    <3>3. QED BY <3>1, <3>2
  <2>5. DetailInv'
    BY <1>0, <1>3, <2>1, <2>2, <2>4, DetailParts DEF ShowRow
  <2>6. QED BY <1>3, <2>5, SameRows, SameFailures DEF ShowRow
<1>4. ASSUME NEW l \in Loads, ServeFindings(l) PROVE DetailInv' /\ RowsStep /\ FailuresGrow /\ UNCHANGED watched
  <2>1. watched # NoScan
    BY <1>4, IdleCall DEF ServeFindings, DetailInv, DetailRests
  <2>2. triage[watched] \in Triages \cup {"none"}
    BY <1>0, <2>1 DEF RowsTypeOK
  <2>3. [loads[l] EXCEPT !.problems = triage[watched]] \in Calls
    BY <1>0, <2>2 DEF Calls
  <2>4. loads' \in [Loads -> Calls]
    BY <1>0, <1>4, <2>3 DEF ServeFindings
  <2>5. DetailInv'
    BY <1>0, <1>4, <2>1, <2>4, DetailParts DEF ServeFindings
  <2>6. QED BY <1>4, <2>5, SameRows, SameFailures DEF ServeFindings
<1>5. ASSUME NEW l \in Loads, ShowFindings(l) PROVE DetailInv' /\ RowsStep /\ FailuresGrow /\ UNCHANGED watched
  <2>1. watched # NoScan
    BY <1>5, IdleCall DEF ShowFindings, DetailInv, DetailRests
  <2>2. problems' \in Triages \cup {"none"}
    BY <1>0, <1>5 DEF ShowFindings, Calls
  <2>3. /\ loads' \in [Loads -> Calls]
        /\ ending' \in {"no", "asked", "written", "refused", "reloading"}
    BY <1>5, EndLoadType DEF ShowFindings
  <2>4. DetailInv'
    BY <1>0, <1>5, <2>1, <2>2, <2>3, DetailParts DEF ShowFindings
  <2>5. QED BY <1>5, <2>4, SameRows, SameFailures DEF ShowFindings
<1>6. ASSUME NEW l \in Loads, LoadFails(l) PROVE DetailInv' /\ RowsStep /\ FailuresGrow /\ UNCHANGED watched
  <2>1. watched # NoScan
    BY <1>6, IdleCall DEF LoadFails, DetailInv, DetailRests
  <2>2. /\ loads' \in [Loads -> Calls]
        /\ ending' \in {"no", "asked", "written", "refused", "reloading"}
    BY <1>6, EndLoadType DEF LoadFails
  <2>3. DetailInv'
    BY <1>0, <1>6, <2>1, <2>2, DetailParts DEF LoadFails
  <2>4. QED BY <1>6, <2>3, SameRows, SameFailures, AnswersGrow DEF LoadFails
<1>7. CASE CancelScan
  <2>1. watched # NoScan
    BY <1>7 DEF CancelScan, Offers, DetailInv, DetailRests
  <2>2. DetailInv'
    BY <1>0, <1>7, <2>1, DetailParts DEF CancelScan
  <2>3. QED BY <1>7, <2>2, SameRows, SameFailures DEF CancelScan
<1>8. CASE ServeCancel
  <2>1. watched # NoScan
    BY <1>8 DEF ServeCancel, DetailInv, DetailRests
  <2>2. DetailInv'
    BY <1>0, <1>8, <2>1, DetailParts DEF ServeCancel
  <2>3. CASE status[watched] \in Open
    <3>1. SetStatus(watched, "failed") /\ UNCHANGED <<triage, worker>> /\ "failed" \in Open \cup Closed
      BY <1>8, <2>3 DEF ServeCancel, CancelRow, Closed
    <3>2. RowsStep
      BY <1>0, <2>1, <3>1, SetStatusRows DEF RowsStep, RowsTypeOK
    <3>3. QED BY <1>8, <2>2, <3>2, SameFailures DEF ServeCancel
  <2>4. CASE status[watched] \notin Open
    BY <1>8, <2>2, <2>4, SameRows, SameFailures DEF ServeCancel
  <2>5. QED BY <2>3, <2>4
<1>9. CASE CancelRefused
  <2>1. watched # NoScan
    BY <1>9 DEF CancelRefused, DetailInv, DetailRests
  <2>2. DetailInv'
    BY <1>0, <1>9, <2>1, DetailParts DEF CancelRefused
  <2>3. QED BY <1>9, <2>2, SameRows, SameFailures, AnswersGrow DEF CancelRefused
<1>10. ASSUME NEW l \in Loads, CancelAnswered(l)
       PROVE DetailInv' /\ RowsStep /\ FailuresGrow /\ UNCHANGED watched
  <2>1. watched # NoScan
    BY <1>10 DEF CancelAnswered, DetailInv, DetailRests
  <2>2. loads' \in [Loads -> Calls]
    BY <1>0, <1>10, CallSteps, IdleCall DEF CancelAnswered, StartLoad, Open, Triages, Idle, Calls
  <2>3. DetailInv'
    BY <1>0, <1>10, <2>1, <2>2, DetailParts DEF CancelAnswered
  <2>4. QED BY <1>10, <2>3, SameRows, SameFailures DEF CancelAnswered
<1>11. QED
  BY <1>1, <1>2, <1>3, <1>4, <1>5, <1>6, <1>7, <1>8, <1>9, <1>10 DEF DetailStep, DetailAnswer

-----------------------------------------------------------------------------
(* The page that starts scans *)

LEMMA NewKeeps ==
  ASSUME RowsTypeOK, FailuresOK, NewInv, NewStep
  PROVE  /\ NewInv' /\ RowsTypeOK' /\ DeletedLast /\ FailuresGrow
         /\ form # "asked" => NoneOfMine
         /\ form # "unmounted"
<1>0. /\ form \in {"unmounted", "idle", "asked", "created", "refused", "leaving"}
      /\ submitting \in BOOLEAN /\ created \in Scans \cup {NoScan} /\ visit \subseteq Scans
      /\ IsFiniteSet(visit)
      /\ form \in {"asked", "created", "leaving"} => submitting
  BY DEF NewInv, NewTypeOK, VisitCounted
<1>1. CASE Submit
  <2>1. form \in {"idle", "leaving"} /\ ~submitting /\ form' = "asked" /\ submitting' = TRUE
        /\ UNCHANGED <<created, visit, server, failures>>
    BY <1>1 DEF Submit
  <2>2. FailuresGrow /\ RowsStep
    BY <2>1, SameFailures, SameRows
  <2>3. Cardinality(visit') <= failures'
    BY <1>0, <2>1, <2>2, CountKept
  <2>4. NewInv'
    BY <1>0, <2>1, <2>3 DEF NewInv, NewTypeOK, VisitCounted
  <2>5. QED BY <2>1, <2>2, <2>4 DEF RowsStep
<1>2. CASE ServeCreate
  <2>1. form = "asked" /\ submitting' = submitting /\ UNCHANGED failures /\ FailuresGrow
    BY <1>2, SameFailures DEF ServeCreate
  <2>2. CASE form' = "refused" /\ UNCHANGED <<created, visit, server>>
    <3>1. Cardinality(visit') <= failures'
      BY <2>1, <2>2, CountKept
    <3>2. NewInv'
      BY <1>0, <2>1, <2>2, <3>1 DEF NewInv, NewTypeOK, VisitCounted
    <3>3. QED BY <2>1, <2>2, <3>2, SameRows DEF RowsStep
  <2>3. ASSUME NEW s \in Mine, CreateRow(s), created' = s, visit' = visit \cup {s}, form' = "created"
        PROVE  NewInv' /\ RowsTypeOK' /\ DeletedLast
    <3>1. s \in Scans
      BY ScanServerAssumption
    <3>2. RowsTypeOK' /\ DeletedLast
      BY <2>3, <3>1, CreateRows DEF CreateRow
    <3>3. NewTypeOK'
      BY <1>0, <2>1, <2>3, <3>1 DEF NewTypeOK
    <3>4. Cardinality(visit) <= failures /\ Cardinality(visit) \in Nat
      BY <1>0, <2>1, FS_CardinalityType DEF NewInv, VisitCounted
    <3>5. /\ IsFiniteSet(visit')
          /\ Cardinality(visit') = Cardinality(visit) \/ Cardinality(visit') = Cardinality(visit) + 1
      BY <1>0, <2>3, FS_AddElement
    <3>6. Cardinality(visit') <= 1 + failures'
      BY <2>1, <3>4, <3>5 DEF FailuresOK
    <3>7. VisitCounted'
      BY <1>0, <2>1, <2>3, <3>5, <3>6 DEF VisitCounted
    <3>8. QED BY <3>2, <3>3, <3>7 DEF NewInv
  <2>4. QED BY <1>2, <2>1, <2>2, <2>3 DEF ServeCreate
<1>3. CASE CreateAnswered
  <2>1. form = "created" /\ form' = "leaving" /\ UNCHANGED <<submitting, created, visit, server, failures>>
    BY <1>3 DEF CreateAnswered
  <2>2. FailuresGrow /\ RowsStep
    BY <2>1, SameFailures, SameRows
  <2>3. Cardinality(visit') <= 1 + failures'
    BY <2>1, <2>2, CountKept
  <2>4. NewInv'
    BY <1>0, <2>1, <2>3 DEF NewInv, NewTypeOK, VisitCounted
  <2>5. QED BY <2>1, <2>2, <2>4 DEF RowsStep
<1>4. CASE CreateFailed
  <2>1. /\ form' = "idle" /\ submitting' = FALSE /\ created' = NoScan /\ UNCHANGED <<visit, server>>
        /\ form \in {"asked", "created", "refused"}
    BY <1>4 DEF CreateFailed
  <2>2. FailuresGrow /\ Cardinality(visit') <= failures'
    <3>1. CASE form = "refused" /\ UNCHANGED failures
      BY <2>1, <3>1, SameFailures, CountKept
    <3>2. CASE Answers(FALSE)
      <4>1. FailuresGrow /\ failures' = failures + 1
        BY <3>2, AnswerLost
      <4>2. failures' > failures
        BY <4>1 DEF FailuresOK
      <4>3. QED BY <2>1, <4>1, <4>2, CountKept
    <3>3. QED BY <1>4, <3>1, <3>2 DEF CreateFailed
  <2>3. NewInv'
    BY <1>0, <2>1, <2>2 DEF NewInv, NewTypeOK, VisitCounted
  <2>4. QED BY <2>1, <2>2, <2>3, SameRows DEF RowsStep
<1>5. QED BY <1>1, <1>2, <1>3, <1>4 DEF NewStep

-----------------------------------------------------------------------------
(* The page that lists and deletes scans *)

LEMMA HistoryParts ==
  ASSUME listing' \in {"asked", "detailing", "shown", "failed"}, shelf' \in [Scans -> Shelved],
         removals' \in [Scans -> [Presses -> Requests]], deletingId' \in Scans \cup {NoScan}, clearing' \in Requests,
         \A s \in Scans, q \in Presses : removals'[s][q] = "done" => status'[s] = "deleted",
         clearing' = "done" => \A s \in Mine : ~(Exists(s)')
  PROVE  HistoryInv'
BY DEF HistoryInv, HistoryTypeOK, HistoryRests, DeletionsTrue

\* A step of the page that changes no row.
LEMMA HistoryCalls ==
  ASSUME RowsTypeOK, FailuresOK, HistoryInv, UNCHANGED server, FailuresGrow,
         listing' \in {"asked", "detailing", "shown", "failed"},
         shelf' \in [Scans -> Shelved],
         removals' \in [Scans -> [Presses -> Requests]], deletingId' \in Scans \cup {NoScan}, clearing' \in Requests,
         \A s \in Scans, q \in Presses : removals'[s][q] = "done" => removals[s][q] = "done",
         clearing' = "done" => clearing = "done"
  PROVE  HistoryInv' /\ RowsStep
<1>1. RowsStep
  BY SameRows
<1>2. UNCHANGED status
  BY DEF server
<1>3. \A s \in Scans, q \in Presses : removals'[s][q] = "done" => status'[s] = "deleted"
  BY <1>2 DEF HistoryInv, DeletionsTrue
<1>4. clearing' = "done" => \A s \in Mine : ~(Exists(s)')
  BY <1>2 DEF HistoryInv, DeletionsTrue, Exists
<1>5. QED BY <1>1, <1>3, <1>4, HistoryParts

LEMMA HistoryKeeps ==
  ASSUME RowsTypeOK, FailuresOK, HistoryInv, HistoryStep
  PROVE  HistoryInv' /\ RowsStep /\ FailuresGrow /\ listing # "unmounted" /\ listing' # "unmounted"
<1> DEFINE Goal == HistoryInv' /\ RowsStep /\ FailuresGrow /\ listing # "unmounted" /\ listing' # "unmounted"
<1>0. /\ listing \in {"unmounted", "asked", "detailing", "shown", "failed"}
      /\ shelf \in [Scans -> Shelved] /\ removals \in [Scans -> [Presses -> Requests]]
      /\ deletingId \in Scans \cup {NoScan} /\ clearing \in Requests
      /\ listing = "unmounted" => clearing = "no" /\ \A s \in Scans, p \in Presses : removals[s][p] = "no"
      /\ \A s \in Scans, q \in Presses : removals[s][q] = "done" => status[s] = "deleted"
      /\ clearing = "done" => \A s \in Mine : ~Exists(s)
  BY DEF HistoryInv, HistoryTypeOK, HistoryRests, DeletionsTrue
<1>r. /\ {"no", "asked", "done", "refused"} = Requests
      /\ NotListed \in Shelved
  BY NotListedShelved DEF Requests
<1>1. CASE ServeList
  <2>1. \A s \in Scans : Exists(s) => [status |-> status[s], problems |-> "unread"] \in Shelved
    BY DEF RowsTypeOK, Exists, Shelved
  <2>2. shelf' \in [Scans -> Shelved]
    BY <1>1, <1>r, <2>1 DEF ServeList
  <2>3. FailuresGrow /\ listing = "asked" /\ listing' = "detailing"
    BY <1>1, SameFailures DEF ServeList
  <2>4. HistoryInv' /\ RowsStep
    BY <1>0, <1>1, <2>2, <2>3, HistoryCalls DEF ServeList
  <2>5. QED BY <2>3, <2>4
<1>2. CASE ShowList
  <2>1. FailuresGrow /\ listing = "detailing" /\ listing' = "shown"
    BY <1>2, SameFailures DEF ShowList
  <2>2. HistoryInv' /\ RowsStep
    BY <1>0, <1>2, <2>1, HistoryCalls DEF ShowList
  <2>3. QED BY <2>1, <2>2
<1>3. CASE ListFails
  <2>1. FailuresGrow /\ listing = "asked" /\ listing' = "failed"
    BY <1>3, AnswersGrow DEF ListFails
  <2>2. HistoryInv' /\ RowsStep
    BY <1>0, <1>3, <2>1, HistoryCalls DEF ListFails
  <2>3. QED BY <2>1, <2>2
<1>4. CASE ClearHistory
  <2>1. FailuresGrow /\ listing = "shown" /\ listing' = "shown" /\ clearing' = "asked"
    BY <1>4, SameFailures DEF ClearHistory, Listed
  <2>2. HistoryInv' /\ RowsStep
    BY <1>0, <1>4, <1>r, <2>1, HistoryCalls DEF ClearHistory
  <2>3. QED BY <2>1, <2>2
<1>5. CASE ServeClear
  <2>1. FailuresGrow /\ listing' = listing /\ listing # "unmounted"
    BY <1>0, <1>5, SameFailures DEF ServeClear
  <2>2. CASE \E s \in Mine : status[s] \in Open
    <3>1. clearing' = "refused"
      BY <1>5, <2>2 DEF ServeClear
    <3>2. HistoryInv' /\ RowsStep
      BY <1>0, <1>5, <1>r, <2>1, <2>2, <3>1, HistoryCalls DEF ServeClear
    <3>3. QED BY <2>1, <3>2
  <2>3. CASE ~ \E s \in Mine : status[s] \in Open
    <3>1. DeleteRows(Mine) /\ clearing' = "done"
      BY <1>5, <2>3 DEF ServeClear
    <3>2. RowsStep /\ \A s \in Mine : ~(Exists(s)')
      BY <3>1, DeleteRowsRows, ScanServerAssumption
    <3>3. \A s \in Scans, q \in Presses : removals'[s][q] = "done" => status'[s] = "deleted"
      BY <1>0, <1>5, <3>2 DEF ServeClear, RowsStep, DeletedLast
    <3>4. HistoryInv'
      BY <1>0, <1>5, <1>r, <2>1, <3>1, <3>2, <3>3, HistoryParts DEF ServeClear
    <3>5. QED BY <2>1, <3>2, <3>4
  <2>4. QED BY <2>2, <2>3
<1>6. CASE ClearAnswered
  <2>1. FailuresGrow /\ listing' = listing /\ listing # "unmounted" /\ clearing' = "no"
    BY <1>0, <1>6, SameFailures, AnswersGrow DEF ClearAnswered
  <2>2. shelf' \in [Scans -> Shelved]
    BY <1>0, <1>6, <1>r DEF ClearAnswered
  <2>3. HistoryInv' /\ RowsStep
    BY <1>0, <1>6, <1>r, <2>1, <2>2, HistoryCalls DEF ClearAnswered
  <2>4. QED BY <2>1, <2>3
<1>7. ASSUME NEW s \in Scans, ServeProblems(s) PROVE Goal
  <2>1. FailuresGrow /\ listing' = listing /\ listing = "detailing"
    BY <1>7, AnswersGrow DEF ServeProblems
  <2>2. PICK found \in Triages \cup {"none"} : shelf' = [shelf EXCEPT ![s].problems = found]
    BY <1>7 DEF ServeProblems, RowsTypeOK
  <2>3. [shelf[s] EXCEPT !.problems = found] \in Shelved
    BY <1>0 DEF Shelved
  <2>4. shelf' \in [Scans -> Shelved]
    BY <1>0, <2>2, <2>3
  <2>5. HistoryInv' /\ RowsStep
    BY <1>0, <1>7, <2>1, <2>4, HistoryCalls DEF ServeProblems
  <2>6. QED BY <2>1, <2>5
<1>8. ASSUME NEW s \in Scans, NEW p \in Presses, DeleteScan(s, p) PROVE Goal
  <2>1. FailuresGrow /\ listing' = listing /\ listing = "shown"
    BY <1>8, SameFailures DEF DeleteScan, Listed
  <2>2. removals' \in [Scans -> [Presses -> Requests]] /\ \A o \in Scans, q \in Presses : removals'[o][q] = "done" => removals[o][q] = "done"
    BY <1>0, <1>8, <1>r DEF DeleteScan
  <2>3. HistoryInv' /\ RowsStep
    BY <1>0, <1>8, <2>1, <2>2, HistoryCalls DEF DeleteScan
  <2>4. QED BY <2>1, <2>3
<1>9. ASSUME NEW s \in Scans, NEW p \in Presses, ServeDelete(s, p) PROVE Goal
  <2>1. FailuresGrow /\ listing' = listing /\ listing # "unmounted"
    BY <1>0, <1>9, SameFailures DEF ServeDelete
  <2>2. CASE removals' = [removals EXCEPT ![s][p] = "refused"] /\ UNCHANGED server
    <3>1. removals' \in [Scans -> [Presses -> Requests]] /\ \A o \in Scans, q \in Presses : removals'[o][q] = "done" => removals[o][q] = "done"
      BY <1>0, <1>r, <2>2
    <3>2. HistoryInv' /\ RowsStep
      BY <1>0, <1>9, <2>1, <2>2, <3>1, HistoryCalls DEF ServeDelete
    <3>3. QED BY <2>1, <3>2
  <2>3. CASE Exists(s) /\ removals' = [removals EXCEPT ![s][p] = "done"] /\ DeleteRows({s})
    <3>1. RowsStep /\ status'[s] = "deleted"
      BY <2>3, DeleteRowsRows
    <3>2. \A o \in Scans, q \in Presses : removals'[o][q] = "done" => status'[o] = "deleted"
      BY <1>0, <2>3, <3>1 DEF RowsStep, DeletedLast
    <3>3. clearing = "done" => \A o \in Mine : ~(Exists(o)')
      BY <1>0, <3>1 DEF RowsStep, NoneOfMine
    <3>4. removals' \in [Scans -> [Presses -> Requests]]
      BY <1>0, <1>r, <2>3
    <3>5. HistoryInv'
      BY <1>0, <1>9, <2>1, <3>2, <3>3, <3>4, HistoryParts DEF ServeDelete
    <3>6. QED BY <2>1, <3>1, <3>5
  <2>4. QED BY <1>9, <2>2, <2>3 DEF ServeDelete
<1>10. ASSUME NEW s \in Scans, NEW p \in Presses, DeleteAnswered(s, p) PROVE Goal
  <2>1. FailuresGrow /\ listing' = listing /\ listing # "unmounted"
    BY <1>0, <1>10, SameFailures, AnswersGrow DEF DeleteAnswered
  <2>2. removals' \in [Scans -> [Presses -> Requests]] /\ \A o \in Scans, q \in Presses : removals'[o][q] = "done" => removals[o][q] = "done"
    BY <1>0, <1>10, <1>r DEF DeleteAnswered
  <2>3. shelf' \in [Scans -> Shelved]
    BY <1>0, <1>10, <1>r DEF DeleteAnswered
  <2>4. HistoryInv' /\ RowsStep
    BY <1>0, <1>10, <2>1, <2>2, <2>3, HistoryCalls DEF DeleteAnswered
  <2>5. QED BY <2>1, <2>4
<1>11. QED
  BY <1>1, <1>2, <1>3, <1>4, <1>5, <1>6, <1>7, <1>8, <1>9, <1>10 DEF HistoryStep

-----------------------------------------------------------------------------
(* The page of a finding *)

LEMMA FindingParts ==
  ASSUME FindingInv, opened # NoScan, opened' = opened,
         card' \in Triages \cup {"null", "error"},
         triaging' \in [step : {"no", "asked", "done", "refused"}, to : Triages],
         panel' \in Panels, explaining' \in {"no", "brief", "detailed"},
         explaining' = "brief" => panel' \notin Available
  PROVE  FindingInv'
BY DEF FindingInv, FindingTypeOK, FindingRests, BriefFirst

LEMMA FindingKeeps ==
  ASSUME RowsTypeOK, FailuresOK, FindingInv, FindingStep
  PROVE  FindingInv' /\ RowsStep /\ FailuresGrow /\ opened # NoScan /\ UNCHANGED opened
<1> DEFINE Goal == FindingInv' /\ RowsStep /\ FailuresGrow /\ opened # NoScan /\ UNCHANGED opened
<1>0. /\ opened \in Scans \cup {NoScan} /\ card \in Triages \cup {"null", "error"}
      /\ triaging \in [step : {"no", "asked", "done", "refused"}, to : Triages]
      /\ panel \in Panels /\ explaining \in {"no", "brief", "detailed"}
      /\ explaining = "brief" => panel \notin Available
      /\ opened = NoScan => card = "null" /\ triaging.step = "no" /\ explaining = "no"
      /\ "null" \notin Triages
  BY DEF FindingInv, FindingTypeOK, FindingRests, BriefFirst, Triages
<1>1. CASE LoadFinding
  <2>1. opened # NoScan /\ UNCHANGED <<opened, triaging, panel, explaining, server>>
    BY <1>1 DEF LoadFinding
  <2>2. triage[opened] \in Triages \cup {"none"}
    BY <1>0, <2>1 DEF RowsTypeOK
  <2>3. card' \in Triages \cup {"null", "error"} /\ FailuresGrow
    BY <1>1, <2>2, SameFailures, AnswersGrow DEF LoadFinding
  <2>4. FindingInv'
    BY <1>0, <2>1, <2>3, FindingParts
  <2>5. QED BY <2>1, <2>3, <2>4, SameRows
<1>2. ASSUME NEW t \in Triages, UpdateStatus(t) PROVE Goal
  <2>1. opened # NoScan
    BY <1>0, <1>2 DEF UpdateStatus, TriageButtons
  <2>2. triaging' \in [step : {"no", "asked", "done", "refused"}, to : Triages]
    BY <1>2 DEF UpdateStatus
  <2>3. FindingInv'
    BY <1>0, <1>2, <2>1, <2>2, FindingParts DEF UpdateStatus
  <2>4. QED BY <1>2, <2>1, <2>3, SameRows, SameFailures DEF UpdateStatus
<1>3. CASE ServeTriage
  <2>1. opened # NoScan /\ opened \in Scans /\ UNCHANGED <<opened, card, panel, explaining, failures>>
    BY <1>0, <1>3 DEF ServeTriage
  <2>2. triaging' \in [step : {"no", "asked", "done", "refused"}, to : Triages]
    <3>1. /\ [triaging EXCEPT !.step = "refused"] \in [step : {"no", "asked", "done", "refused"}, to : Triages]
          /\ [triaging EXCEPT !.step = "done"] \in [step : {"no", "asked", "done", "refused"}, to : Triages]
      BY <1>0
    <3>2. QED BY <1>3, <3>1 DEF ServeTriage
  <2>3. FindingInv'
    BY <1>0, <2>1, <2>2, FindingParts
  <2>4. triaging.to \in Triages
    BY <1>0
  <2>5. RowsStep
    BY <1>3, <2>1, <2>4, SameRows, TriageRows DEF ServeTriage
  <2>6. QED BY <2>1, <2>3, <2>5, SameFailures
<1>4. CASE TriageAnswered
  <2>1. opened # NoScan /\ UNCHANGED <<opened, panel, explaining, server>> /\ triaging' = NoTriage
    BY <1>0, <1>4 DEF TriageAnswered
  <2>2. card' \in Triages \cup {"null", "error"} /\ FailuresGrow
    BY <1>0, <1>4, SameFailures, AnswersGrow DEF TriageAnswered
  <2>3. NoTriage \in [step : {"no", "asked", "done", "refused"}, to : Triages]
    BY DEF NoTriage, Triages
  <2>4. FindingInv'
    BY <1>0, <2>1, <2>2, <2>3, FindingParts
  <2>5. QED BY <2>1, <2>2, <2>4, SameRows
<1>5. CASE Explained
  <2>1. opened # NoScan /\ UNCHANGED <<opened, card, triaging, server, failures>> /\ explaining' = "no"
    BY <1>0, <1>5 DEF Explained
  <2>2. panel' \in Panels
    BY <1>0, <1>5 DEF Explained, Panels
  <2>3. FindingInv'
    BY <1>0, <2>1, <2>2, FindingParts
  <2>4. QED BY <2>1, <2>3, SameRows, SameFailures
<1>6. ASSUME NEW kind \in {"brief", "detailed"}, Explain(kind) PROVE Goal
  <2>1. opened # NoScan /\ UNCHANGED <<opened, card, triaging, panel, server, failures>>
    BY <1>0, <1>6 DEF Explain
  <2>2. explaining' = kind /\ (kind = "brief" => panel \notin Available)
    BY <1>6 DEF Explain
  <2>3. FindingInv'
    BY <1>0, <2>1, <2>2, FindingParts
  <2>4. QED BY <2>1, <2>3, SameRows, SameFailures
<1>7. QED BY <1>1, <1>2, <1>3, <1>4, <1>5, <1>6 DEF FindingStep

-----------------------------------------------------------------------------
(* The tab *)

LEMMA InvInit == Init => IInv
<1> SUFFICES ASSUME Init PROVE IInv
  OBVIOUS
<1> USE DEF Init
<1>1. RowsTypeOK /\ FailuresOK
  BY ScanServerAssumption DEF ServerInit, RowsTypeOK, FailuresOK
<1>2. OnePage
  BY DEF DetailInit, NewInit, HistoryInit, FindingInit, OnePage
<1>3. DetailInv
  BY IdleCall DEF DetailInit, DetailInv, DetailTypeOK, DetailRests, StopsWithFindings, Calls
<1>4. NewInv
  <2>1. IsFiniteSet(visit) /\ Cardinality(visit) = 0 /\ failures = 0
    BY FS_EmptySet DEF NewInit, ServerInit
  <2>2. NewTypeOK
    BY DEF NewInit, NewTypeOK
  <2>3. VisitCounted
    BY <2>1 DEF NewInit, VisitCounted
  <2>4. QED BY <2>2, <2>3 DEF NewInv
<1>5. HistoryInv
  BY NotListedShelved DEF HistoryInit, HistoryInv, HistoryTypeOK, HistoryRests, DeletionsTrue, Requests
<1>6. FindingInv
  BY DEF FindingInit, FindingInv, FindingTypeOK, FindingRests, BriefFirst, NoTriage, Triages, Panels,
         Available
<1>7. QED BY <1>1, <1>2, <1>3, <1>4, <1>5, <1>6 DEF IInv

\* A navigation: the rows are left alone and every page is opened or left.
LEMMA Navigates ==
  ASSUME IInv, UNCHANGED <<server, failures>>,
         FailuresOK' => NewInv', DetailInv', HistoryInv', FindingInv', OnePage'
  PROVE  IInv'
<1>1. RowsTypeOK' /\ FailuresOK'
  BY SameRows, SameFailures DEF IInv, RowsStep, FailuresGrow
<1>2. QED BY <1>1 DEF IInv

LEMMA InvStep == IInv /\ [Next]_vars => IInv'
<1> SUFFICES ASSUME IInv, [Next]_vars PROVE IInv'
  OBVIOUS
<1>0. /\ RowsTypeOK /\ FailuresOK /\ OnePage
      /\ DetailInv /\ NewInv /\ HistoryInv /\ FindingInv
      /\ clearing = "done" => listing # "unmounted"
  BY DEF IInv, HistoryInv, HistoryRests
<1>1. CASE ServerStep /\ UNCHANGED <<failures, detail, newPage, history, finding>>
  <2>1. RowsStep /\ FailuresGrow
    BY <1>0, <1>1, ServerRows, SameFailures
  <2>2. DetailInv' /\ NewInv' /\ HistoryInv' /\ FindingInv'
    BY <1>0, <1>1, <2>1, DetailKept, NewKept, HistoryKept, FindingKept DEF RowsStep
  <2>3. OnePage'
    BY <1>0, <1>1 DEF OnePage, detail, newPage, history, finding
  <2>4. QED BY <2>1, <2>2, <2>3 DEF IInv, RowsStep, FailuresGrow
<1>2. CASE DetailStep /\ UNCHANGED <<newPage, history, finding>>
  <2>1. DetailInv' /\ RowsStep /\ FailuresGrow /\ UNCHANGED watched
    BY <1>0, <1>2, DetailKeeps
  <2>2. NewInv' /\ HistoryInv' /\ FindingInv'
    BY <1>0, <1>2, <2>1, NewKept, HistoryKept, FindingKept DEF RowsStep
  <2>3. OnePage'
    BY <1>0, <1>2, <2>1 DEF OnePage, newPage, history, finding
  <2>4. QED BY <2>1, <2>2, <2>3 DEF IInv, RowsStep, FailuresGrow
<1>3. CASE NewStep /\ UNCHANGED <<detail, history, finding>>
  <2>1. /\ NewInv' /\ RowsTypeOK' /\ DeletedLast /\ FailuresGrow
        /\ form # "unmounted"
    BY <1>0, <1>3, NewKeeps
  <2>2. listing = "unmounted" /\ watched = NoScan /\ opened = NoScan
    BY <1>0, <2>1 DEF OnePage
  <2>3. DetailInv' /\ HistoryInv' /\ FindingInv'
    BY <1>0, <1>3, <2>1, <2>2, DetailKept, HistoryKept, FindingKept
  <2>4. OnePage'
    BY <1>3, <2>2 DEF OnePage, detail, history, finding
  <2>5. QED BY <2>1, <2>3, <2>4 DEF IInv, FailuresGrow
<1>4. CASE HistoryStep /\ UNCHANGED <<detail, newPage, finding>>
  <2>1. HistoryInv' /\ RowsStep /\ FailuresGrow /\ listing # "unmounted"
    BY <1>0, <1>4, HistoryKeeps
  <2>2. DetailInv' /\ NewInv' /\ FindingInv'
    BY <1>0, <1>4, <2>1, DetailKept, NewKept, FindingKept
  <2>3. form = "unmounted" /\ watched = NoScan /\ opened = NoScan
    BY <1>0, <2>1 DEF OnePage
  <2>4. OnePage'
    BY <1>4, <2>3 DEF OnePage, detail, newPage, finding
  <2>5. QED BY <2>1, <2>2, <2>4 DEF IInv, RowsStep, FailuresGrow
<1>5. CASE FindingStep /\ UNCHANGED <<detail, newPage, history>>
  <2>1. FindingInv' /\ RowsStep /\ FailuresGrow /\ UNCHANGED opened
    BY <1>0, <1>5, FindingKeeps
  <2>2. DetailInv' /\ NewInv' /\ HistoryInv'
    BY <1>0, <1>5, <2>1, DetailKept, NewKept, HistoryKept DEF RowsStep
  <2>3. OnePage'
    BY <1>0, <1>5, <2>1 DEF OnePage, detail, newPage, history
  <2>4. QED BY <2>1, <2>2, <2>3 DEF IInv, RowsStep, FailuresGrow
<1>6. CASE ToNew
  <2>1. /\ FailuresOK' => NewInv'
        /\ DetailInv' /\ watched' = NoScan
        /\ HistoryInv' /\ listing' = "unmounted"
        /\ FindingInv' /\ opened' = NoScan
    BY <1>6, NewIsInv, UnmountedInv, HistoryIsInv, FindingIsInv DEF ToNew
  <2>2. OnePage'
    BY <2>1 DEF OnePage
  <2>3. QED BY <1>6, <2>1, <2>2, Navigates DEF ToNew
<1>7. CASE ToHistory
  <2>1. /\ FailuresOK' => NewInv'
        /\ DetailInv' /\ watched' = NoScan
        /\ HistoryInv'
        /\ FindingInv' /\ opened' = NoScan
    BY <1>7, NewIsInv, UnmountedInv, HistoryIsInv, FindingIsInv DEF ToHistory
  <2>2. form' = "unmounted"
    BY <1>7 DEF ToHistory, NewIs
  <2>3. OnePage'
    BY <2>1, <2>2 DEF OnePage
  <2>4. QED BY <1>7, <2>1, <2>3, Navigates DEF ToHistory
<1>8. CASE ToFinding
  <2>1. watched \in Scans \cup {NoScan}
    BY <1>0 DEF DetailInv, DetailTypeOK
  <2>2. /\ FailuresOK' => NewInv'
        /\ DetailInv' /\ watched' = NoScan
        /\ HistoryInv' /\ listing' = "unmounted"
        /\ FindingInv'
    BY <1>8, <2>1, NewIsInv, UnmountedInv, HistoryIsInv, FindingIsInv DEF ToFinding
  <2>3. form' = "unmounted"
    BY <1>8 DEF ToFinding, NewIs
  <2>4. OnePage'
    BY <2>2, <2>3 DEF OnePage
  <2>5. QED BY <1>8, <2>2, <2>4, Navigates DEF ToFinding
<1>9. ASSUME NEW s \in Scans, ToDetail(s) PROVE IInv'
  <2>1. /\ FailuresOK' => NewInv'
        /\ DetailInv'
        /\ HistoryInv' /\ listing' = "unmounted"
        /\ FindingInv' /\ opened' = NoScan
    BY <1>9, NewIsInv, MountInv, HistoryIsInv, FindingIsInv DEF ToDetail
  <2>2. form' = "unmounted"
    BY <1>9 DEF ToDetail, NewIs
  <2>3. OnePage'
    BY <2>1, <2>2 DEF OnePage
  <2>4. QED BY <1>9, <2>1, <2>3, Navigates DEF ToDetail
<1>10. CASE UNCHANGED vars
  <2>1. UNCHANGED <<server, failures, detail, newPage, history, finding>>
    BY <1>10 DEF vars
  <2>2. RowsStep /\ FailuresGrow
    BY <1>0, <2>1, SameRows, SameFailures
  <2>3. DetailInv' /\ NewInv' /\ HistoryInv' /\ FindingInv'
    BY <1>0, <2>1, <2>2, DetailKept, NewKept, HistoryKept, FindingKept DEF RowsStep
  <2>4. OnePage'
    BY <1>0, <2>1 DEF OnePage, detail, newPage, history, finding
  <2>5. QED BY <2>2, <2>3, <2>4 DEF IInv, RowsStep, FailuresGrow
<1>11. QED
  BY <1>1, <1>2, <1>3, <1>4, <1>5, <1>6, <1>7, <1>8, <1>9, <1>10 DEF Next

LEMMA Invariance == Spec => []IInv
BY InvInit, InvStep, PTL DEF Spec

\* The rows, the calls in flight and the state of each page keep their types,
\* and a page that was left has no calls.
THEOREM TypeCorrect == Spec => []TypeOK
BY Invariance, InvTypes, PTL

\* However the ticks of load() overlap, fail and answer, the page of a scan has
\* findings once it no longer asks.
THEOREM FindingsSafety == Spec => []StopsWithFindings
<1>1. IInv => StopsWithFindings
  BY DEF IInv, DetailInv
<1>2. QED BY <1>1, Invariance, PTL

\* One visit to the page that starts scans inserts one row, and one more for
\* each answer that was lost.
THEOREM VisitSafety == Spec => []OneScanPerVisit
<1>1. IInv => OneScanPerVisit
  <2> SUFFICES ASSUME IInv PROVE OneScanPerVisit
    OBVIOUS
  <2>1. /\ Cardinality(visit) \in Nat /\ failures \in Nat
        /\ Cardinality(visit) <= 1 + failures \/ Cardinality(visit) <= failures
    BY FS_CardinalityType DEF IInv, NewInv, VisitCounted, FailuresOK
  <2>2. QED BY <2>1 DEF OneScanPerVisit
<1>2. QED BY <1>1, Invariance, PTL

-----------------------------------------------------------------------------
(* What a step may not take away *)

Hides(s) == Listed(s) /\ listing' = "shown" /\ shelf'[s] = NotListed

LEMMA HiddenStep ==
  ASSUME IInv, [Next]_vars, NEW s \in Scans, Hides(s)
  PROVE  ~Exists(s)
<1>0. /\ listing = "shown" /\ listing' = "shown" /\ shelf[s] # NotListed /\ shelf'[s] = NotListed
      /\ shelf \in [Scans -> Shelved]
      /\ \A o \in Scans, q \in Presses : removals[o][q] = "done" => status[o] = "deleted"
      /\ clearing = "done" => \A o \in Mine : ~Exists(o)
  BY DEF Hides, Listed, IInv, HistoryInv, HistoryTypeOK, DeletionsTrue
<1>1. ~(UNCHANGED shelf)
  BY <1>0
<1>2. ~(UNCHANGED history)
  BY <1>1 DEF history
<1>3. HistoryStep
  <2>1. ~ToNew /\ ~ToHistory /\ ~ToFinding /\ ~ \E o \in Scans : ToDetail(o)
    BY <1>0 DEF ToNew, ToHistory, ToFinding, ToDetail, HistoryIs
  <2>2. QED BY <1>2, <2>1 DEF Next, vars
<1>4. ClearAnswered \/ \E o \in Scans, p \in Presses : DeleteAnswered(o, p)
  BY <1>0, <1>1, <1>3 DEF HistoryStep, ServeList, ShowList, ListFails, ClearHistory, ServeClear,
                          ServeProblems, DeleteScan, ServeDelete
<1>5. CASE ClearAnswered
  BY <1>0, <1>1, <1>5 DEF ClearAnswered
<1>6. ASSUME NEW o \in Scans, NEW p \in Presses, DeleteAnswered(o, p) PROVE ~Exists(s)
  <2>1. removals[o][p] = "done" /\ shelf' = [shelf EXCEPT ![o] = NotListed]
    BY <1>1, <1>6 DEF DeleteAnswered
  <2>2. o = s
    BY <1>0, <2>1
  <2>3. QED BY <1>0, <2>1, <2>2 DEF Exists
<1>7. QED BY <1>4, <1>5, <1>6

\* Refused and repeated deletions, lost answers and a clear of one's own scans
\* leave a scan that is still there on the list.
THEOREM DeletionSafety == Spec => HiddenIsDeleted
<1>1. IInv /\ [Next]_vars => [\A s \in Scans : Hides(s) => ~Exists(s)]_vars
  BY HiddenStep
<1>2. [][\A s \in Scans : Hides(s) => ~Exists(s)]_vars <=> HiddenIsDeleted
  BY PTL DEF Hides, HiddenIsDeleted
<1>3. QED BY <1>1, <1>2, Invariance, PTL DEF Spec

Explains == opened # NoScan /\ opened' = opened /\ panel \in Available

LEMMA ExplanationStep ==
  ASSUME IInv, [Next]_vars, Explains
  PROVE  panel' \in Available
<1>0. /\ opened # NoScan /\ opened' = opened /\ panel \in Available
      /\ explaining # "brief" /\ explaining \in {"no", "brief", "detailed"}
      /\ watched = NoScan
  BY DEF Explains, IInv, FindingInv, FindingTypeOK, BriefFirst, OnePage
<1>1. CASE UNCHANGED panel
  BY <1>0, <1>1
<1>2. CASE Explained
  BY <1>0, <1>2 DEF Explained, Available
<1>3. CASE ToNew \/ ToHistory \/ ToFinding \/ \E s \in Scans : ToDetail(s)
  BY <1>0, <1>3 DEF ToNew, ToHistory, ToFinding, ToDetail, FindingIs
<1>4. CASE FindingStep
  BY <1>1, <1>2, <1>4 DEF FindingStep, LoadFinding, ServeTriage, TriageAnswered, UpdateStatus, Explain
<1>5. CASE UNCHANGED finding
  BY <1>1, <1>5 DEF finding
<1>6. QED BY <1>3, <1>4, <1>5 DEF Next, vars

\* An explanation on the page outlives every later answer, triage and failure.
THEOREM ExplanationSafety == Spec => ExplanationKept
<1>1. IInv /\ [Next]_vars => [Explains => panel' \in Available]_vars
  BY ExplanationStep
<1>2. [][Explains => panel' \in Available]_vars <=> ExplanationKept
  BY PTL DEF Explains, ExplanationKept
<1>3. QED BY <1>1, <1>2, Invariance, PTL DEF Spec
=============================================================================
