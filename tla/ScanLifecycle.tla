--------------------------- MODULE ScanLifecycle ---------------------------
(***************************************************************************)
(* The life of one account's scan rows on one API instance: the requests   *)
(* that create, cancel, delete and clear scans, the scheduled reaper, and  *)
(* the worker thread that runs a scan and writes its result while all of   *)
(* them go on (services/scan.py, controllers/scan_controller.py).          *)
(*                                                                         *)
(* One action is one database call of the code together with the local     *)
(* computation up to the next one, so every await and every HTTP call is a *)
(* point where another actor may run.  A write may be lost; the process    *)
(* may be replaced, which kills every worker and every request in flight.  *)
(***************************************************************************)
EXTENDS Naturals, FiniteSets

CONSTANTS
  Scans,          \* scan ids
  Targets,        \* hook_cache keys of this account
  TargetOf,       \* the durable target of each scan
  NoScan,         \* SQL null in hook_cache.last_scan_id; an unheld slot
  Results,        \* bound: which Outcomes the runs of the pipeline have
  Asked,          \* bound: which of cancel, delete and clear users ask for
  MaxLostWrites,  \* bound: database calls that fail
  MaxRestarts     \* bound: times the API process is replaced

ASSUME ScanLifecycleAssumption ==
  /\ TargetOf \in [Scans -> Targets]
  /\ NoScan \notin Scans
  /\ Results \subseteq {"clean", "serious", "incomplete", "ungraded"}
  /\ Asked \subseteq {"cancel", "delete", "clear"}
  /\ MaxLostWrites \in Nat
  /\ MaxRestarts \in Nat

VARIABLES
  status,      \* scans.status; "none" before the insert, "deleted" after the row is gone
  graded,      \* scans.grade is not null
  error,       \* scans.error: which text the row carries
  old,         \* created_at is more than STUCK_AFTER ago
  stored,      \* the findings table holds the scan's critical and high findings
  cache,       \* hook_cache, by target
  pc,          \* where the scan's worker is
  outcome,     \* what run_pipeline returned in the worker's memory
  saved,       \* _persist_completed_scan returned without raising
  slot,        \* the holder of _SCAN_SLOT
  reaping,     \* the reaper's loop: which select it is on, and the rows left of it
  cancelling,  \* scans a cancel request has checked and not yet written
  deleting,    \* delete_scan requests in flight
  clearing,    \* the clear_scan_history request in flight
  lost,        \* database calls that have failed
  restarts     \* times the process was replaced

row      == <<status, graded, error>>
worker   == <<pc, outcome, saved, slot>>
requests == <<reaping, cancelling, deleting, clearing>>
faults   == <<lost, restarts>>
vars == <<row, old, stored, cache, worker, requests, faults>>

Open     == {"queued", "running"}
Verdicts == {"completed", "incomplete"}
Statuses == {"none", "deleted", "failed"} \cup Open \cup Verdicts
Errors   == {"null", "worker", "cancelled", "reaped"}

\* What the pipeline can conclude: a graded report without or with a critical
\* or high finding; a report no grade could be read from, without or with one.
Outcomes == {"clean", "serious", "incomplete", "ungraded"}
Serious(o) == o \in {"serious", "ungraded"}
VerdictOf(o) == IF o \in {"clean", "serious"} THEN "completed" ELSE "incomplete"

Active == {"starting", "scanning", "broken", "persisting", "caching",
           "unsaved", "verifying", "forcing", "enriching"}
WorkerStates == {"none", "waiting", "done", "lost"} \cup Active

NoEntry == [scan |-> NoScan, status |-> "none"]
Entries == [scan : Scans \cup {NoScan}, status : Verdicts] \cup {NoEntry}

Steps == {"no", "checked", "uncached"}
Sweeps == {"idle"} \cup Open

TypeOK ==
  /\ status \in [Scans -> Statuses]
  /\ graded \in [Scans -> BOOLEAN]
  /\ error \in [Scans -> Errors]
  /\ old \in [Scans -> BOOLEAN]
  /\ stored \in [Scans -> BOOLEAN]
  /\ cache \in [Targets -> Entries]
  /\ pc \in [Scans -> WorkerStates]
  /\ outcome \in [Scans -> Outcomes \cup {"unknown"}]
  /\ saved \in [Scans -> BOOLEAN]
  /\ slot \in Scans \cup {NoScan}
  /\ reaping \in [sweep : Sweeps, batch : SUBSET Scans]
  /\ cancelling \in SUBSET Scans
  /\ deleting \in [Scans -> Steps]
  /\ clearing \in Steps
  /\ lost \in 0..MaxLostWrites
  /\ restarts \in 0..MaxRestarts

Init ==
  /\ status = [s \in Scans |-> "none"]
  /\ graded = [s \in Scans |-> FALSE]
  /\ error = [s \in Scans |-> "null"]
  /\ old = [s \in Scans |-> FALSE]
  /\ stored = [s \in Scans |-> FALSE]
  /\ cache = [t \in Targets |-> NoEntry]
  /\ pc = [s \in Scans |-> "none"]
  /\ outcome = [s \in Scans |-> "unknown"]
  /\ saved = [s \in Scans |-> FALSE]
  /\ slot = NoScan
  /\ reaping = [sweep |-> "idle", batch |-> {}]
  /\ cancelling = {}
  /\ deleting = [s \in Scans |-> "no"]
  /\ clearing = "no"
  /\ lost = 0
  /\ restarts = 0

-----------------------------------------------------------------------------
(* The database *)

Exists(s) == status[s] \notin {"none", "deleted"}

\* A call that may fail: a failure is counted against the bound.
Call(ok) ==
  /\ ok \/ lost < MaxLostWrites
  /\ lost' = IF ok THEN lost ELSE lost + 1
  /\ UNCHANGED restarts

\* Mutated form of Patch: an upsert, which inserts the row it does not find.
Patch_Upserts(s, landed, newStatus, newGraded, newError) ==
  IF landed
  THEN /\ status' = [status EXCEPT ![s] = newStatus]
       /\ graded' = [graded EXCEPT ![s] = newGraded]
       /\ error' = [error EXCEPT ![s] = newError]
  ELSE UNCHANGED row

\* PATCH /scans?id=eq.s matches no row once the scan is deleted, and is then
\* not an error.
Patch(s, landed, newStatus, newGraded, newError) ==
  IF landed /\ Exists(s)
  THEN /\ status' = [status EXCEPT ![s] = newStatus]
       /\ graded' = [graded EXCEPT ![s] = newGraded]
       /\ error' = [error EXCEPT ![s] = newError]
  ELSE UNCHANGED row

\* Mutated forms of CloseAsFailed: the grade column is left out of the patch;
\* the reason becomes a status value of its own.
CloseAsFailed_KeepsGrade(s, landed, reason) == Patch(s, landed, "failed", graded[s], reason)
CloseAsFailed_NewStatus(s, landed, reason) == Patch(s, landed, reason, FALSE, reason)

\* The columns every closing write sets: no grade survives a failure.
CloseAsFailed(s, landed, reason) == Patch(s, landed, "failed", FALSE, reason)

\* Deleting rows of scans: findings cascade, hook_cache.last_scan_id is set
\* to null by its foreign key.
DeleteRows(S) ==
  /\ status' = [s \in Scans |-> IF s \in S /\ Exists(s) THEN "deleted" ELSE status[s]]
  /\ graded' = [s \in Scans |-> graded[s] /\ s \notin S]
  /\ error' = [s \in Scans |-> IF s \in S THEN "null" ELSE error[s]]
  /\ stored' = [s \in Scans |-> stored[s] /\ s \notin S]
  /\ cache' = [t \in Targets |->
       IF cache[t] # NoEntry /\ cache[t].scan \in S
       THEN [scan |-> NoScan, status |-> cache[t].status]
       ELSE cache[t]]

-----------------------------------------------------------------------------
(* Requests: create *)

\* create_scan, create_scan_from_upload and the hook's _queue_first_scan: the
\* row is inserted, then the background task is registered.  If the insert
\* lands but its answer is lost the handler raises, and no task exists.
Create(s, ok) ==
  /\ status[s] = "none"
  /\ Call(ok)
  /\ status' = [status EXCEPT ![s] = "queued"]
  /\ pc' = [pc EXCEPT ![s] = IF ok THEN "waiting" ELSE "lost"]
  /\ UNCHANGED <<graded, error, old, stored, cache, outcome, saved, slot, requests>>

-----------------------------------------------------------------------------
(* The worker: start_scan and _run_and_persist *)

GoTo(s, label) == pc' = [pc EXCEPT ![s] = label] /\ UNCHANGED slot

\* Mutated form of Finish: an exception leaves the semaphore held.
Finish_KeepsSlot(s) == pc' = [pc EXCEPT ![s] = "done"] /\ UNCHANGED slot

\* The thread returns, and `async with _SCAN_SLOT` releases the slot.
Finish(s) == pc' = [pc EXCEPT ![s] = "done"] /\ slot' = NoScan

AcquireSlot(s) ==
  /\ pc[s] = "waiting" /\ slot = NoScan
  /\ slot' = s
  /\ pc' = [pc EXCEPT ![s] = "starting"]
  /\ UNCHANGED <<row, old, stored, cache, outcome, saved, requests, faults>>

\* The first patch does not ask what the row's status has become.
MarkRunning(s, ok) ==
  /\ pc[s] = "starting"
  /\ Call(ok)
  /\ Patch(s, ok, "running", graded[s], "null")
  /\ GoTo(s, "scanning")
  /\ UNCHANGED <<old, stored, cache, outcome, saved, requests>>

\* run_pipeline returns.  on_findings upserts what was found, best effort; a
\* finding of a deleted scan is refused by its foreign key.
PipelineReturns(s, o, ok) ==
  /\ pc[s] = "scanning"
  /\ Call(ok)
  /\ outcome' = [outcome EXCEPT ![s] = o]
  /\ stored' = [stored EXCEPT ![s] = Serious(o) /\ ok /\ Exists(s)]
  /\ GoTo(s, "persisting")
  /\ UNCHANGED <<row, old, cache, saved, requests>>

PipelineRaises(s) ==
  /\ pc[s] = "scanning"
  /\ GoTo(s, "broken")
  /\ UNCHANGED <<row, old, stored, cache, outcome, saved, requests, faults>>

\* _mark_scan_failed after an exception of the pipeline; the function returns
\* without reading the row back.
MarkBroken(s, ok) ==
  /\ pc[s] = "broken"
  /\ Call(ok)
  /\ CloseAsFailed(s, ok, "worker")
  /\ Finish(s)
  /\ UNCHANGED <<old, stored, cache, outcome, saved, requests>>

\* Mutated form of PersistScan: the terminal patch is best effort too.
PersistScan_BestEffort(s, landed, acked) ==
  /\ pc[s] = "persisting"
  /\ Call(acked)
  /\ Patch(s, landed, VerdictOf(outcome[s]), VerdictOf(outcome[s]) = "completed", error[s])
  /\ GoTo(s, "caching")
  /\ UNCHANGED <<old, stored, cache, outcome, saved, requests>>

\* The required patch.  A call that timed out may still have landed.
PersistScan(s, landed, acked) ==
  /\ pc[s] = "persisting"
  /\ acked => landed
  /\ Call(acked)
  /\ Patch(s, landed, VerdictOf(outcome[s]), VerdictOf(outcome[s]) = "completed", error[s])
  /\ GoTo(s, IF acked THEN "caching" ELSE "unsaved")
  /\ UNCHANGED <<old, stored, cache, outcome, saved, requests>>

\* Mutated forms of UpsertCache: last_scan_id is not a foreign key; only a
\* graded scan is cached.
UpsertCache_NoForeignKey(s, ok) ==
  /\ pc[s] = "caching"
  /\ Call(ok)
  /\ cache' = IF ok
              THEN [cache EXCEPT ![TargetOf[s]] =
                      [scan |-> s, status |-> VerdictOf(outcome[s])]]
              ELSE cache
  /\ saved' = [saved EXCEPT ![s] = TRUE]
  /\ GoTo(s, "verifying")
  /\ UNCHANGED <<row, old, stored, outcome, requests>>

UpsertCache_GradedOnly(s, ok) ==
  /\ pc[s] = "caching"
  /\ Call(ok)
  /\ cache' = IF ok /\ Exists(s) /\ VerdictOf(outcome[s]) = "completed"
              THEN [cache EXCEPT ![TargetOf[s]] = [scan |-> s, status |-> "completed"]]
              ELSE cache
  /\ saved' = [saved EXCEPT ![s] = TRUE]
  /\ GoTo(s, "verifying")
  /\ UNCHANGED <<row, old, stored, outcome, requests>>

\* The upsert into hook_cache, best effort; last_scan_id must name a row.
UpsertCache(s, ok) ==
  /\ pc[s] = "caching"
  /\ Call(ok)
  /\ cache' = IF ok /\ Exists(s)
              THEN [cache EXCEPT ![TargetOf[s]] =
                      [scan |-> s, status |-> VerdictOf(outcome[s])]]
              ELSE cache
  /\ saved' = [saved EXCEPT ![s] = TRUE]
  /\ GoTo(s, "verifying")
  /\ UNCHANGED <<row, old, stored, outcome, requests>>

MarkUnsaved(s, ok) ==
  /\ pc[s] = "unsaved"
  /\ Call(ok)
  /\ CloseAsFailed(s, ok, "worker")
  /\ GoTo(s, "verifying")
  /\ UNCHANGED <<old, stored, cache, outcome, saved, requests>>

\* What follows the `finally`: enrichment when the scan was persisted, and
\* the end of the thread when it was not.
AfterFinally(s) == IF saved[s] THEN GoTo(s, "enriching") ELSE Finish(s)

\* _ensure_terminal reads the row back; a failed read is logged and ends it.
VerifyTerminal(s, ok) ==
  /\ pc[s] = "verifying"
  /\ Call(ok)
  /\ IF ok /\ status[s] \in Open THEN GoTo(s, "forcing") ELSE AfterFinally(s)
  /\ UNCHANGED <<row, old, stored, cache, outcome, saved, requests>>

ForceFailed(s, ok) ==
  /\ pc[s] = "forcing"
  /\ Call(ok)
  /\ CloseAsFailed(s, ok, "worker")
  /\ AfterFinally(s)
  /\ UNCHANGED <<old, stored, cache, outcome, saved, requests>>

\* DefectDojo and triage: the slot is still held, and only llm_* columns of
\* findings and triage_note are written.
Enrich(s) ==
  /\ pc[s] = "enriching"
  /\ Finish(s)
  /\ UNCHANGED <<row, old, stored, cache, outcome, saved, requests, faults>>

Worker(s) ==
  \/ PipelineRaises(s)
  \/ Enrich(s)
  \/ \E ok \in BOOLEAN :
       \/ MarkRunning(s, ok)
       \/ \E o \in Results : PipelineReturns(s, o, ok)
       \/ MarkBroken(s, ok)
       \/ \E landed \in BOOLEAN : PersistScan(s, landed, ok)
       \/ UpsertCache(s, ok)
       \/ MarkUnsaved(s, ok)
       \/ VerifyTerminal(s, ok)
       \/ ForceFailed(s, ok)

-----------------------------------------------------------------------------
(* Requests: cancel, delete, clear; the reaper *)

CancelCheck(s) ==
  /\ "cancel" \in Asked
  /\ s \notin cancelling
  /\ status[s] \in Open
  /\ cancelling' = cancelling \cup {s}
  /\ UNCHANGED <<row, old, stored, cache, worker, reaping, deleting, clearing, faults>>

\* The update is keyed on the id alone: the status checked before the await
\* is not part of its filter.
CancelWrite(s, ok) ==
  /\ s \in cancelling
  /\ Call(ok)
  /\ CloseAsFailed(s, ok, "cancelled")
  /\ cancelling' = cancelling \ {s}
  /\ UNCHANGED <<old, stored, cache, worker, reaping, deleting, clearing>>

Abandoned(s) == status[s] \in Open /\ old[s]

DeleteCheck(s) ==
  /\ "delete" \in Asked
  /\ deleting[s] = "no" /\ Exists(s)
  /\ status[s] \in Open => Abandoned(s)
  /\ deleting' = [deleting EXCEPT ![s] = "checked"]
  /\ UNCHANGED <<row, old, stored, cache, worker, reaping, cancelling, clearing, faults>>

DeleteCached(s) ==
  /\ deleting[s] = "checked"
  /\ cache' = [t \in Targets |-> IF cache[t].scan = s THEN NoEntry ELSE cache[t]]
  /\ deleting' = [deleting EXCEPT ![s] = "uncached"]
  /\ UNCHANGED <<row, old, stored, worker, reaping, cancelling, clearing, faults>>

DeleteRow(s) ==
  /\ deleting[s] = "uncached"
  /\ DeleteRows({s})
  /\ deleting' = [deleting EXCEPT ![s] = "no"]
  /\ UNCHANGED <<old, worker, reaping, cancelling, clearing, faults>>

ClearCheck ==
  /\ "clear" \in Asked
  /\ clearing = "no"
  /\ \A s \in Scans : status[s] \notin Open
  /\ clearing' = "checked"
  /\ UNCHANGED <<row, old, stored, cache, worker, reaping, cancelling, deleting, faults>>

ClearCached ==
  /\ clearing = "checked"
  /\ cache' = [t \in Targets |-> NoEntry]
  /\ clearing' = "uncached"
  /\ UNCHANGED <<row, old, stored, worker, reaping, cancelling, deleting, faults>>

ClearRows ==
  /\ clearing = "uncached"
  /\ DeleteRows(Scans)
  /\ clearing' = "no"
  /\ UNCHANGED <<old, worker, reaping, cancelling, deleting, faults>>

\* Mutated form of ReapSelect: both selects ask for running rows.
ReapSelect_RunningOnly(sweep) ==
  /\ reaping.batch = {}
  /\ reaping.sweep = IF sweep = "queued" THEN "idle" ELSE "queued"
  /\ reaping' = [sweep |-> sweep,
                  batch |-> {s \in Scans : status[s] = "running" /\ Abandoned(s)}]
  /\ UNCHANGED <<row, old, stored, cache, worker, cancelling, deleting, clearing, faults>>

\* reap_stuck_scans: one select per open status, in sorted order.  The age is
\* compared row by row afterwards; it is taken with the select here, as a row
\* that ages in between could have aged before it.
ReapSelect(sweep) ==
  /\ reaping.batch = {}
  /\ reaping.sweep = IF sweep = "queued" THEN "idle" ELSE "queued"
  /\ reaping' = [sweep |-> sweep, batch |-> {s \in Scans : status[s] = sweep /\ Abandoned(s)}]
  /\ UNCHANGED <<row, old, stored, cache, worker, cancelling, deleting, clearing, faults>>

\* One row of the batch.  An update that fails ends the request.
ReapRow(s, ok) ==
  /\ s \in reaping.batch
  /\ Call(ok)
  /\ CloseAsFailed(s, ok, "reaped")
  /\ reaping' = IF ok THEN [reaping EXCEPT !.batch = @ \ {s}]
                ELSE [sweep |-> "idle", batch |-> {}]
  /\ UNCHANGED <<old, stored, cache, worker, cancelling, deleting, clearing>>

ReapEnd ==
  /\ reaping = [sweep |-> "running", batch |-> {}]
  /\ reaping' = [reaping EXCEPT !.sweep = "idle"]
  /\ UNCHANGED <<row, old, stored, cache, worker, cancelling, deleting, clearing, faults>>

Reaper ==
  \/ ReapSelect("queued")
  \/ ReapSelect("running")
  \/ \E s \in Scans, ok \in BOOLEAN : ReapRow(s, ok)
  \/ ReapEnd

Requests ==
  \/ \E s \in Scans, ok \in BOOLEAN : Create(s, ok) \/ CancelWrite(s, ok)
  \/ \E s \in Scans : \/ CancelCheck(s)
                      \/ DeleteCheck(s) \/ DeleteCached(s) \/ DeleteRow(s)
  \/ ClearCheck \/ ClearCached \/ ClearRows

-----------------------------------------------------------------------------
(* Time and the process *)

\* created_at passes STUCK_AFTER.  A run by itself cannot take that long, the
\* wait for the slot behind another scan can, and so can a row no worker will
\* touch again.
Age(s) ==
  /\ ~old[s]
  /\ \/ pc[s] = "waiting" /\ slot # NoScan
     \/ pc[s] \in {"done", "lost"} /\ status[s] \in Open
  /\ old' = [old EXCEPT ![s] = TRUE]
  /\ UNCHANGED <<row, stored, cache, worker, requests, faults>>

\* The API process is replaced: background tasks and requests are in memory.
Restart ==
  /\ restarts < MaxRestarts
  /\ restarts' = restarts + 1
  /\ pc' = [s \in Scans |-> IF pc[s] \in Active \cup {"waiting"} THEN "lost" ELSE pc[s]]
  /\ slot' = NoScan
  /\ reaping' = [sweep |-> "idle", batch |-> {}]
  /\ cancelling' = {}
  /\ deleting' = [s \in Scans |-> "no"]
  /\ clearing' = "no"
  /\ UNCHANGED <<row, old, stored, cache, outcome, saved, lost>>

Next ==
  \/ \E s \in Scans : AcquireSlot(s) \/ Worker(s) \/ Age(s)
  \/ Reaper
  \/ Requests
  \/ Restart

Spec == Init /\ [][Next]_vars

\* The event loop and the threads make progress, the clock runs, and the
\* scheduler keeps calling the reaper.  No request of a user is assumed.
Fairness ==
  /\ \A s \in Scans : WF_vars(AcquireSlot(s)) /\ WF_vars(Worker(s)) /\ WF_vars(Age(s))
  /\ WF_vars(Reaper)

FairSpec == Spec /\ Fairness

-----------------------------------------------------------------------------
(* Properties *)

\* A row shows a grade exactly when it says completed: no closing write of a
\* cancel, the reaper or the worker leaves the letter of a run behind, however
\* late it lands.
GradeMeansCompleted == \A s \in Scans : graded[s] <=> status[s] = "completed"

\* A hook_cache row that names a scan names an existing scan of that target,
\* and repeats what that scan's own run concluded.
CacheBacked ==
  \A t \in Targets : LET s == cache[t].scan IN
    s \in Scans => /\ Exists(s)
                   /\ TargetOf[s] = t
                   /\ outcome[s] # "unknown"
                   /\ cache[t].status = VerdictOf(outcome[s])

\* When the terminal write was acknowledged the row is closed for good,
\* whatever cancels, sweeps and deletions raced the worker.
AckedMeansClosed ==
  \A s \in Scans : saved[s] => status[s] \notin Open

\* A scan left open, by a lost write, a lost insert or a replaced process, is
\* closed, and then stays closed: a worker reopens a row at most once.
EveryScanCloses ==
  \A s \in Scans : status[s] \in Open ~> [](status[s] \notin Open)

\* Whoever waits for the slot gets it, unless the process is replaced first.
WaitingScansStart ==
  \A s \in Scans : pc[s] = "waiting" ~> pc[s] # "waiting"

\* Each scan's place on the board.  A verdict may still be published as long
\* as the worker has not passed its terminal write and the row exists.
Unwritten == {"none", "waiting", "starting", "scanning", "persisting"}
BoardOf(s) ==
  IF status[s] \in Verdicts THEN status[s]
  ELSE IF pc[s] \in Unwritten /\ status[s] # "deleted" THEN "pending"
  ELSE "void"

Board == INSTANCE VerdictBoard WITH board <- [s \in Scans |-> BoardOf(s)]

\* The rows, read as a board, publish each verdict at most once: no patch that
\* lands late, no retry and no deletion brings a withdrawn verdict back.
VerdictPublishedOnce == Board!Spec

-----------------------------------------------------------------------------
(* What makes the invariants inductive *)

\* The slot is held by the one worker that is past `async with`.
SlotHolder == \A s \in Scans : pc[s] \in Active <=> slot = s

\* How far the worker is tells what the row and its memory can hold.
Phases ==
  \A s \in Scans :
    /\ status[s] = "none" => pc[s] = "none"
    /\ saved[s] => pc[s] \in {"verifying", "forcing", "enriching", "done", "lost"}
    /\ pc[s] = "caching" => status[s] \notin Open
    /\ pc[s] \in {"persisting", "caching"} => outcome[s] # "unknown"

\* A verdict on a row is the one its own run returned, and is there only once
\* the worker has passed the terminal write.
VerdictOwned ==
  \A s \in Scans : status[s] \in Verdicts =>
    /\ pc[s] \notin Unwritten
    /\ outcome[s] # "unknown"
    /\ status[s] = VerdictOf(outcome[s])

CachedIsSaved == \A t \in Targets : cache[t].scan \in Scans => saved[cache[t].scan]

IInv ==
  /\ TypeOK
  /\ SlotHolder
  /\ Phases
  /\ VerdictOwned
  /\ CachedIsSaved
  /\ GradeMeansCompleted
  /\ CacheBacked
  /\ AckedMeansClosed
=============================================================================
