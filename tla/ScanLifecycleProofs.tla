------------------------ MODULE ScanLifecycleProofs -------------------------
(***************************************************************************)
(* Theorems about ScanLifecycle for any number of scans, targets, lost     *)
(* writes and restarts: its type invariant, its safety invariants, and     *)
(* that it implements VerdictBoard.  The last part is about HookGate, the  *)
(* check in front of the scan service, for any checks and credits: nobody  *)
(* is denied what an override has allowed all the while, and, as long as   *)
(* no database call was lost, a target is called clean only when its run   *)
(* earned it.                                                              *)
(***************************************************************************)
EXTENDS HookGate, TLAPS

\* A state-changing step, by the actor that takes it.
LEMMA NextCases ==
  ASSUME Next
  PROVE  \/ \E s \in Scans : AcquireSlot(s) \/ PipelineRaises(s) \/ Enrich(s) \/ Age(s)
         \/ \E s \in Scans, ok \in BOOLEAN :
              \/ MarkRunning(s, ok) \/ MarkBroken(s, ok) \/ UpsertCache(s, ok)
              \/ MarkUnsaved(s, ok) \/ VerifyTerminal(s, ok) \/ ForceFailed(s, ok)
              \/ Create(s, ok) \/ CancelWrite(s, ok) \/ ReapRow(s, ok)
         \/ \E s \in Scans, o \in Results, ok \in BOOLEAN : PipelineReturns(s, o, ok)
         \/ \E s \in Scans, landed, acked \in BOOLEAN : PersistScan(s, landed, acked)
         \/ \E s \in Scans : CancelCheck(s) \/ DeleteCheck(s) \/ DeleteCached(s) \/ DeleteRow(s)
         \/ \E sweep \in {"queued", "running"} : ReapSelect(sweep)
         \/ ClearCheck \/ ClearCached \/ ClearRows \/ ReapEnd \/ Restart
BY DEF Next, Worker, Reaper, Requests

-----------------------------------------------------------------------------
(* Type correctness *)

\* What a patch does to the three columns is well typed.
LEMMA PatchType ==
  ASSUME TypeOK,
         NEW s \in Scans, NEW landed \in BOOLEAN, NEW st \in Statuses,
         NEW g \in BOOLEAN, NEW e \in Errors,
         Patch(s, landed, st, g, e)
  PROVE  /\ status' \in [Scans -> Statuses]
         /\ graded' \in [Scans -> BOOLEAN]
         /\ error' \in [Scans -> Errors]
BY DEF TypeOK, Patch, row

LEMMA DeleteRowsType ==
  ASSUME TypeOK, NEW S \in SUBSET Scans, DeleteRows(S)
  PROVE  /\ status' \in [Scans -> Statuses]
         /\ graded' \in [Scans -> BOOLEAN]
         /\ error' \in [Scans -> Errors]
         /\ stored' \in [Scans -> BOOLEAN]
         /\ cache' \in [Targets -> Entries]
<1>1. /\ status' \in [Scans -> Statuses]
      /\ graded' \in [Scans -> BOOLEAN]
      /\ error' \in [Scans -> Errors]
      /\ stored' \in [Scans -> BOOLEAN]
  BY DEF TypeOK, DeleteRows, Statuses, Errors, Exists
<1>2. cache' \in [Targets -> Entries]
  <2>1. ASSUME NEW t \in Targets, cache[t] # NoEntry
        PROVE  [scan |-> NoScan, status |-> cache[t].status] \in Entries
    BY <2>1 DEF TypeOK, Entries
  <2>2. QED BY <2>1 DEF TypeOK, DeleteRows
<1>3. QED BY <1>1, <1>2

LEMMA CallType ==
  ASSUME TypeOK, NEW ok \in BOOLEAN, Call(ok)
  PROVE  lost' \in 0..MaxLostWrites /\ restarts' \in 0..MaxRestarts
BY ScanLifecycleAssumption DEF TypeOK, Call

\* The frame of every action that is a patch and a step of the worker.
LEMMA VerdictOfType ==
  /\ Verdicts \subseteq Statuses
  /\ Open \subseteq Statuses
  /\ \A o : VerdictOf(o) \in Verdicts
  /\ Active \subseteq WorkerStates
BY DEF Verdicts, Open, Statuses, VerdictOf, Active, WorkerStates

LEMMA TypeInit == Init => TypeOK
BY ScanLifecycleAssumption
   DEF Init, TypeOK, Statuses, Errors, Entries, NoEntry, WorkerStates, Sweeps, Steps

LEMMA TypeStep == TypeOK /\ [Next]_vars => TypeOK'
<1> SUFFICES ASSUME TypeOK, [Next]_vars PROVE TypeOK'
  OBVIOUS
<1> USE ScanLifecycleAssumption, VerdictOfType
<1>1. CASE UNCHANGED vars
  BY <1>1 DEF vars, row, worker, requests, faults, TypeOK
<1>2. ASSUME NEW s \in Scans, AcquireSlot(s) \/ PipelineRaises(s) \/ Enrich(s) \/ Age(s)
      PROVE  TypeOK'
  <2>1. CASE AcquireSlot(s)
    BY <2>1 DEF AcquireSlot, TypeOK, row, requests, faults, WorkerStates, Active
  <2>2. CASE PipelineRaises(s)
    BY <2>2 DEF PipelineRaises, GoTo, TypeOK, row, requests, faults, WorkerStates, Active
  <2>3. CASE Enrich(s)
    BY <2>3 DEF Enrich, Finish, TypeOK, row, requests, faults, WorkerStates, Active
  <2>4. CASE Age(s)
    BY <2>4 DEF Age, TypeOK, row, worker, requests, faults
  <2>5. QED BY <1>2, <2>1, <2>2, <2>3, <2>4
<1>3. ASSUME NEW s \in Scans, NEW ok \in BOOLEAN,
             \/ MarkRunning(s, ok) \/ MarkBroken(s, ok) \/ UpsertCache(s, ok)
             \/ MarkUnsaved(s, ok) \/ VerifyTerminal(s, ok) \/ ForceFailed(s, ok)
             \/ Create(s, ok) \/ CancelWrite(s, ok) \/ ReapRow(s, ok)
      PROVE  TypeOK'
  <2>1. CASE MarkRunning(s, ok)
    <3>1. Call(ok) /\ Patch(s, ok, "running", graded[s], "null")
      BY <2>1 DEF MarkRunning
    <3>2. "running" \in Statuses /\ graded[s] \in BOOLEAN /\ "null" \in Errors
      BY DEF TypeOK, Statuses, Open, Errors
    <3>3. QED BY <2>1, <3>1, <3>2, CallType, PatchType
              DEF MarkRunning, GoTo, TypeOK, requests, WorkerStates, Active
  <2>2. ASSUME NEW e \in Errors, CloseAsFailed(s, ok, e)
        PROVE  /\ status' \in [Scans -> Statuses]
               /\ graded' \in [Scans -> BOOLEAN]
               /\ error' \in [Scans -> Errors]
    <3>1. "failed" \in Statuses BY DEF Statuses
    <3>2. QED BY <2>2, <3>1, PatchType DEF CloseAsFailed
  <2>3. "worker" \in Errors /\ "cancelled" \in Errors /\ "reaped" \in Errors
    BY DEF Errors
  <2>4. CASE MarkBroken(s, ok)
    BY <2>4, <2>2, <2>3, CallType DEF MarkBroken, Finish, TypeOK, requests, WorkerStates
  <2>5. CASE UpsertCache(s, ok)
    <3>1. cache' \in [Targets -> Entries]
      BY <2>5 DEF UpsertCache, TypeOK, Entries
    <3>2. QED BY <2>5, <3>1, CallType
              DEF UpsertCache, GoTo, TypeOK, row, requests, WorkerStates, Active
  <2>6. CASE MarkUnsaved(s, ok)
    BY <2>6, <2>2, <2>3, CallType DEF MarkUnsaved, GoTo, TypeOK, requests, WorkerStates, Active
  <2>7. CASE VerifyTerminal(s, ok)
    BY <2>7, CallType
       DEF VerifyTerminal, AfterFinally, GoTo, Finish, TypeOK, row, requests, WorkerStates, Active
  <2>8. CASE ForceFailed(s, ok)
    BY <2>8, <2>2, <2>3, CallType
       DEF ForceFailed, AfterFinally, GoTo, Finish, TypeOK, requests, WorkerStates, Active
  <2>9. CASE Create(s, ok)
    BY <2>9, CallType DEF Create, TypeOK, requests, WorkerStates, Statuses, Open
  <2>10. CASE CancelWrite(s, ok)
    BY <2>10, <2>2, <2>3, CallType DEF CancelWrite, TypeOK, worker
  <2>11. CASE ReapRow(s, ok)
    <3>1. reaping' \in [sweep : Sweeps, batch : SUBSET Scans]
      BY <2>11 DEF ReapRow, TypeOK, Sweeps
    <3>2. QED BY <2>11, <3>1, <2>2, <2>3, CallType DEF ReapRow, TypeOK, worker
  <2>12. QED BY <1>3, <2>1, <2>4, <2>5, <2>6, <2>7, <2>8, <2>9, <2>10, <2>11
<1>4. ASSUME NEW s \in Scans, NEW o \in Results, NEW ok \in BOOLEAN, PipelineReturns(s, o, ok)
      PROVE  TypeOK'
  <2>1. o \in Outcomes BY DEF Outcomes
  <2>2. (Serious(o) /\ ok /\ Exists(s)) \in BOOLEAN BY DEF Serious, Exists
  <2>3. QED BY <1>4, <2>1, <2>2, CallType
            DEF PipelineReturns, GoTo, TypeOK, row, requests, WorkerStates, Active
<1>5. ASSUME NEW s \in Scans, NEW landed \in BOOLEAN, NEW acked \in BOOLEAN,
             PersistScan(s, landed, acked)
      PROVE  TypeOK'
  <2> DEFINE letter == VerdictOf(outcome[s]) = "completed"
  <2>1. Call(acked) /\ Patch(s, landed, VerdictOf(outcome[s]), letter, error[s])
    BY <1>5 DEF PersistScan
  <2>2. VerdictOf(outcome[s]) \in Statuses /\ letter \in BOOLEAN /\ error[s] \in Errors
    BY DEF TypeOK
  <2>3. /\ status' \in [Scans -> Statuses]
        /\ graded' \in [Scans -> BOOLEAN]
        /\ error' \in [Scans -> Errors]
    <3> HIDE DEF letter
    <3>1. QED BY <2>1, <2>2 DEF Patch, row, TypeOK
  <2>4. QED BY <1>5, <2>1, <2>3, CallType
            DEF PersistScan, GoTo, TypeOK, requests, WorkerStates, Active
<1>6. ASSUME NEW s \in Scans, CancelCheck(s) \/ DeleteCheck(s) \/ DeleteCached(s) \/ DeleteRow(s)
      PROVE  TypeOK'
  <2>1. CASE CancelCheck(s)
    BY <2>1 DEF CancelCheck, TypeOK, row, worker, faults
  <2>2. CASE DeleteCheck(s)
    BY <2>2 DEF DeleteCheck, TypeOK, row, worker, faults, Steps
  <2>3. CASE DeleteCached(s)
    <3>1. cache' \in [Targets -> Entries]
      BY <2>3 DEF DeleteCached, TypeOK, Entries
    <3>2. QED BY <2>3, <3>1 DEF DeleteCached, TypeOK, row, worker, faults, Steps
  <2>4. CASE DeleteRow(s)
    BY <2>4, DeleteRowsType DEF DeleteRow, TypeOK, worker, faults, Steps
  <2>5. QED BY <1>6, <2>1, <2>2, <2>3, <2>4
<1>7. ASSUME NEW sweep \in {"queued", "running"}, ReapSelect(sweep) PROVE TypeOK'
  BY <1>7 DEF ReapSelect, TypeOK, row, worker, faults, Sweeps, Open
<1>8. CASE ClearCheck
  BY <1>8 DEF ClearCheck, TypeOK, row, worker, faults, Steps
<1>9. CASE ClearCached
  <2>1. cache' \in [Targets -> Entries]
    BY <1>9 DEF ClearCached, TypeOK, Entries
  <2>2. QED BY <1>9, <2>1 DEF ClearCached, TypeOK, row, worker, faults, Steps
<1>10. CASE ClearRows
  BY <1>10, DeleteRowsType DEF ClearRows, TypeOK, worker, faults, Steps
<1>11. CASE ReapEnd
  BY <1>11 DEF ReapEnd, TypeOK, row, worker, faults, Sweeps
<1>12. CASE Restart
  BY <1>12 DEF Restart, TypeOK, row, Sweeps, Steps, WorkerStates
<1>13. QED
  BY NextCases, <1>1, <1>2, <1>3, <1>4, <1>5, <1>6, <1>7, <1>8, <1>9, <1>10, <1>11, <1>12

\* Every variable of the scan lifecycle keeps to the values the schema and the
\* code allow, in particular scans.status to its check constraint.
THEOREM TypeCorrect == Spec => []TypeOK
BY TypeInit, TypeStep, PTL DEF Spec

-----------------------------------------------------------------------------
(* The inductive invariant *)

\* Only its own columns of its own row change, and only if the row exists.
LEMMA PatchEffect ==
  ASSUME TypeOK,
         NEW s \in Scans, NEW landed \in BOOLEAN, NEW st, NEW g, NEW e,
         Patch(s, landed, st, g, e)
  PROVE  \A r \in Scans :
           \/ status'[r] = status[r] /\ graded'[r] = graded[r] /\ ~(r = s /\ landed /\ Exists(s))
           \/ r = s /\ landed /\ Exists(s) /\ status'[r] = st /\ graded'[r] = g
BY DEF TypeOK, Patch, row

LEMMA CloseEffect ==
  ASSUME TypeOK, NEW s \in Scans, NEW landed \in BOOLEAN, NEW reason,
         CloseAsFailed(s, landed, reason)
  PROVE  \A r \in Scans :
           \/ status'[r] = status[r] /\ graded'[r] = graded[r]
           \/ r = s /\ Exists(r) /\ status'[r] = "failed" /\ graded'[r] = FALSE
BY DEF TypeOK, CloseAsFailed, Patch, row

LEMMA InvInit == Init => IInv
<1> SUFFICES ASSUME Init PROVE IInv
  OBVIOUS
<1>1. TypeOK
  BY TypeInit
<1>2. SlotHolder /\ Phases /\ VerdictOwned
  BY ScanLifecycleAssumption
     DEF Init, SlotHolder, Phases, VerdictOwned, Active, Open, Verdicts
<1>3. CachedIsSaved /\ CacheBacked /\ GradeMeansCompleted /\ AckedMeansClosed
  BY ScanLifecycleAssumption
     DEF Init, CachedIsSaved, CacheBacked, GradeMeansCompleted, AckedMeansClosed, NoEntry
<1>4. QED BY <1>1, <1>2, <1>3 DEF IInv

\* A step that leaves the worker, the runs' results and the cache alone and
\* closes some rows as failed without a grade keeps the invariant.
LEMMA ClosingKeepsInv ==
  ASSUME IInv, TypeOK',
         UNCHANGED <<cache, pc, outcome, saved, slot>>,
         \A r \in Scans :
           \/ status'[r] = status[r] /\ graded'[r] = graded[r]
           \/ Exists(r) /\ status'[r] = "failed" /\ graded'[r] = FALSE
  PROVE  IInv'
<1> USE DEF IInv
<1>1. SlotHolder'
  BY DEF SlotHolder
<1>2. Phases' /\ AckedMeansClosed'
  BY DEF Phases, AckedMeansClosed, Exists, Open
<1>3. VerdictOwned' /\ GradeMeansCompleted'
  BY DEF VerdictOwned, GradeMeansCompleted, Verdicts
<1>4. CachedIsSaved'
  BY DEF CachedIsSaved
<1>5. CacheBacked'
  BY DEF CacheBacked, Exists
<1>6. QED BY <1>1, <1>2, <1>3, <1>4, <1>5

\* Deleting rows keeps it too: no cache entry is left naming a deleted row.
LEMMA DeletingKeepsInv ==
  ASSUME IInv, TypeOK', NEW S \in SUBSET Scans, DeleteRows(S),
         UNCHANGED <<pc, outcome, saved, slot>>
  PROVE  IInv'
<1> USE ScanLifecycleAssumption DEF IInv
<1>1. \A r \in Scans :
        \/ status'[r] = status[r] /\ graded'[r] = graded[r] /\ (r \in S => ~Exists(r))
        \/ r \in S /\ Exists(r) /\ status'[r] = "deleted" /\ ~graded'[r]
  BY DEF DeleteRows, TypeOK, GradeMeansCompleted, Exists
<1>2. SlotHolder'
  BY DEF SlotHolder
<1>3. Phases' /\ AckedMeansClosed'
  BY <1>1 DEF Phases, AckedMeansClosed, Exists, Open
<1>4. VerdictOwned' /\ GradeMeansCompleted'
  BY <1>1 DEF VerdictOwned, GradeMeansCompleted, Verdicts
<1>5. \A t \in Targets : cache'[t].scan \in Scans =>
        cache'[t] = cache[t] /\ cache[t].scan \notin S
  BY DEF DeleteRows, TypeOK, NoEntry
<1>6. CachedIsSaved'
  BY <1>5 DEF CachedIsSaved
<1>7. CacheBacked'
  BY <1>1, <1>5 DEF CacheBacked, Exists
<1>8. QED BY <1>2, <1>3, <1>4, <1>6, <1>7

\* A step of one worker that leaves rows, results and cache alone.
LEMMA MovingKeepsInv ==
  ASSUME IInv, TypeOK', NEW s \in Scans, NEW label,
         UNCHANGED <<status, graded, cache, outcome, saved>>,
         pc[s] \notin {"none"},
         \/ pc[s] = "waiting" /\ slot = NoScan /\ label = "starting" /\ slot' = s
         \/ pc[s] = "scanning" /\ label = "broken" /\ UNCHANGED slot
         \/ pc[s] = "verifying" /\ label \in {"forcing", "enriching"} /\ UNCHANGED slot
         \/ pc[s] \in Active /\ label = "done" /\ slot' = NoScan
            /\ pc[s] \in {"verifying", "forcing", "enriching"},
         pc' = [pc EXCEPT ![s] = label]
  PROVE  IInv'
<1> USE ScanLifecycleAssumption DEF IInv
<1>1. SlotHolder'
  BY DEF SlotHolder, TypeOK, Active
<1>2. Phases' /\ AckedMeansClosed'
  BY DEF Phases, AckedMeansClosed, TypeOK
<1>3. VerdictOwned' /\ GradeMeansCompleted'
  BY DEF VerdictOwned, GradeMeansCompleted, TypeOK, Unwritten
<1>4. CachedIsSaved' /\ CacheBacked'
  BY DEF CachedIsSaved, CacheBacked, Exists
<1>5. QED BY <1>1, <1>2, <1>3, <1>4

\* The worker's own closing writes.
LEMMA WorkerClosesKeepsInv ==
  ASSUME IInv, TypeOK', NEW s \in Scans, NEW ok \in BOOLEAN,
         MarkBroken(s, ok) \/ MarkUnsaved(s, ok) \/ ForceFailed(s, ok)
  PROVE  IInv'
<1> USE ScanLifecycleAssumption DEF IInv
<1>1. \A r \in Scans :
        \/ status'[r] = status[r] /\ graded'[r] = graded[r]
        \/ r = s /\ Exists(s) /\ status'[r] = "failed" /\ graded'[r] = FALSE
  <2>1. CloseAsFailed(s, ok, "worker")
    BY DEF MarkBroken, MarkUnsaved, ForceFailed
  <2>2. QED BY <2>1, CloseEffect
<1>2. UNCHANGED <<cache, outcome, saved>>
  BY DEF MarkBroken, MarkUnsaved, ForceFailed
<1>3. /\ pc[s] \in {"broken", "unsaved", "forcing"}
      /\ \/ pc' = [pc EXCEPT ![s] = "verifying"] /\ UNCHANGED slot
         \/ pc' = [pc EXCEPT ![s] = "enriching"] /\ UNCHANGED slot
         \/ pc' = [pc EXCEPT ![s] = "done"] /\ slot' = NoScan
  BY DEF MarkBroken, MarkUnsaved, ForceFailed, AfterFinally, GoTo, Finish
<1>4. SlotHolder'
  BY <1>3 DEF SlotHolder, TypeOK, Active
<1>5. Phases' /\ AckedMeansClosed'
  BY <1>1, <1>2, <1>3 DEF Phases, AckedMeansClosed, Exists, Open, TypeOK
<1>6. VerdictOwned' /\ GradeMeansCompleted'
  BY <1>1, <1>2, <1>3 DEF VerdictOwned, GradeMeansCompleted, Verdicts, Unwritten, TypeOK
<1>7. CachedIsSaved' /\ CacheBacked'
  BY <1>1, <1>2 DEF CachedIsSaved, CacheBacked, Exists
<1>8. QED BY <1>4, <1>5, <1>6, <1>7

LEMMA MarkRunningKeepsInv ==
  ASSUME IInv, TypeOK', NEW s \in Scans, NEW ok \in BOOLEAN, MarkRunning(s, ok)
  PROVE  IInv'
<1> USE ScanLifecycleAssumption DEF IInv
<1>1. \A r \in Scans :
        \/ status'[r] = status[r] /\ graded'[r] = graded[r]
        \/ r = s /\ Exists(s) /\ status'[r] = "running" /\ graded'[r] = graded[r]
  BY PatchEffect DEF MarkRunning
<1>2. /\ UNCHANGED <<cache, outcome, saved, slot>>
      /\ pc[s] = "starting" /\ pc' = [pc EXCEPT ![s] = "scanning"]
  BY DEF MarkRunning, GoTo
<1>3. ~saved[s] /\ status[s] \notin Verdicts /\ ~graded[s]
  BY <1>2 DEF Phases, VerdictOwned, GradeMeansCompleted, Unwritten, Verdicts, TypeOK
<1>4. SlotHolder'
  BY <1>2 DEF SlotHolder, TypeOK, Active
<1>5. Phases' /\ AckedMeansClosed'
  BY <1>1, <1>2, <1>3 DEF Phases, AckedMeansClosed, Exists, Open, TypeOK
<1>6. VerdictOwned' /\ GradeMeansCompleted'
  BY <1>1, <1>2, <1>3 DEF VerdictOwned, GradeMeansCompleted, Verdicts, Unwritten, TypeOK
<1>7. CachedIsSaved' /\ CacheBacked'
  BY <1>1, <1>2 DEF CachedIsSaved, CacheBacked, Exists
<1>8. QED BY <1>4, <1>5, <1>6, <1>7

LEMMA PipelineReturnsKeepsInv ==
  ASSUME IInv, TypeOK', NEW s \in Scans, NEW o \in Results, NEW ok \in BOOLEAN,
         PipelineReturns(s, o, ok)
  PROVE  IInv'
<1> USE ScanLifecycleAssumption DEF IInv
<1>1. /\ UNCHANGED <<status, graded, cache, saved, slot>>
      /\ pc[s] = "scanning" /\ pc' = [pc EXCEPT ![s] = "persisting"]
      /\ outcome' = [outcome EXCEPT ![s] = o]
  BY DEF PipelineReturns, GoTo, row
<1>2. ~saved[s] /\ status[s] \notin Verdicts /\ o # "unknown"
  BY <1>1 DEF Phases, VerdictOwned, Unwritten
<1>3. SlotHolder'
  BY <1>1 DEF SlotHolder, TypeOK, Active
<1>4. Phases' /\ AckedMeansClosed'
  BY <1>1, <1>2 DEF Phases, AckedMeansClosed, TypeOK
<1>5. VerdictOwned' /\ GradeMeansCompleted'
  BY <1>1, <1>2 DEF VerdictOwned, GradeMeansCompleted, Unwritten, TypeOK
<1>6. CachedIsSaved'
  BY <1>1 DEF CachedIsSaved
<1>7. CacheBacked'
  BY <1>1, <1>2 DEF CacheBacked, CachedIsSaved, Exists, TypeOK
<1>8. QED BY <1>3, <1>4, <1>5, <1>6, <1>7

LEMMA PersistScanKeepsInv ==
  ASSUME IInv, TypeOK', NEW s \in Scans, NEW landed \in BOOLEAN, NEW acked \in BOOLEAN,
         PersistScan(s, landed, acked)
  PROVE  IInv'
<1> DEFINE verdict == VerdictOf(outcome[s])
           letter == verdict = "completed"
<1> USE ScanLifecycleAssumption DEF IInv
<1>1. Patch(s, landed, verdict, letter, error[s])
  BY DEF PersistScan
<1>2. \A r \in Scans :
        \/ status'[r] = status[r] /\ graded'[r] = graded[r] /\ ~(r = s /\ landed /\ Exists(s))
        \/ r = s /\ Exists(s) /\ status'[r] = verdict /\ graded'[r] = letter
  <2> HIDE DEF verdict, letter
  <2>1. QED BY <1>1, PatchEffect
<1>3. /\ UNCHANGED <<cache, outcome, saved, slot>>
      /\ pc[s] = "persisting"
      /\ \/ acked /\ landed /\ pc' = [pc EXCEPT ![s] = "caching"]
         \/ ~acked /\ pc' = [pc EXCEPT ![s] = "unsaved"]
  BY DEF PersistScan, GoTo
<1>4. /\ ~saved[s] /\ outcome[s] # "unknown" /\ status[s] # "none"
      /\ verdict \in Verdicts
  BY <1>3 DEF Phases, VerdictOf, Verdicts
<1>5. SlotHolder'
  BY <1>3 DEF SlotHolder, TypeOK, Active
<1>6. Phases' /\ AckedMeansClosed'
  <2> HIDE DEF verdict, letter
  <2>1. verdict \notin Open /\ verdict # "none"
    BY <1>4 DEF Verdicts, Open
  <2>2. QED BY <1>2, <1>3, <1>4, <2>1 DEF Phases, AckedMeansClosed, Exists, Open, TypeOK
<1>7. GradeMeansCompleted'
  <2>1. \A r \in Scans : graded'[r] <=> status'[r] = "completed"
    <3> SUFFICES ASSUME NEW r \in Scans PROVE graded'[r] <=> status'[r] = "completed"
      OBVIOUS
    <3>1. CASE status'[r] = status[r] /\ graded'[r] = graded[r]
      BY <3>1 DEF GradeMeansCompleted
    <3>2. CASE status'[r] = verdict /\ graded'[r] = letter
      <4>1. letter <=> verdict = "completed" OBVIOUS
      <4> HIDE DEF verdict, letter
      <4>2. QED BY <3>2, <4>1, Zenon
    <3>3. QED
      <4> HIDE DEF verdict, letter
      <4>1. QED BY <1>2, <3>1, <3>2, Zenon
  <2>2. QED BY <2>1 DEF GradeMeansCompleted
<1>8. VerdictOwned'
  <2> HIDE DEF letter
  <2>1. QED BY <1>2, <1>3, <1>4 DEF VerdictOwned, Verdicts, Unwritten, TypeOK, VerdictOf
<1>9. CachedIsSaved' /\ CacheBacked'
  <2> HIDE DEF letter
  <2>1. verdict \notin {"none", "deleted"} BY <1>4 DEF Verdicts
  <2>2. QED BY <1>2, <1>3, <2>1 DEF CachedIsSaved, CacheBacked, Exists
<1>10. QED BY <1>5, <1>6, <1>7, <1>8, <1>9

LEMMA UpsertCacheKeepsInv ==
  ASSUME IInv, TypeOK', NEW s \in Scans, NEW ok \in BOOLEAN, UpsertCache(s, ok)
  PROVE  IInv'
<1> DEFINE entry == [scan |-> s, status |-> VerdictOf(outcome[s])]
<1> USE ScanLifecycleAssumption DEF IInv
<1>1. /\ UNCHANGED <<status, graded, outcome, slot>>
      /\ pc[s] = "caching" /\ pc' = [pc EXCEPT ![s] = "verifying"]
      /\ saved' = [saved EXCEPT ![s] = TRUE]
  BY DEF UpsertCache, GoTo, row
<1>2. status[s] \notin Open /\ outcome[s] # "unknown"
  BY <1>1 DEF Phases
<1>3. \A t \in Targets :
        \/ cache'[t] = cache[t]
        \/ t = TargetOf[s] /\ Exists(s) /\ cache'[t] = entry
  BY DEF UpsertCache, TypeOK
<1>4. SlotHolder'
  BY <1>1 DEF SlotHolder, TypeOK, Active
<1>5. Phases' /\ AckedMeansClosed'
  BY <1>1, <1>2 DEF Phases, AckedMeansClosed, TypeOK
<1>6. VerdictOwned' /\ GradeMeansCompleted'
  BY <1>1 DEF VerdictOwned, GradeMeansCompleted, Unwritten, TypeOK
<1>7. CachedIsSaved'
  BY <1>1, <1>3 DEF CachedIsSaved, TypeOK
<1>8. CacheBacked'
  BY <1>1, <1>2, <1>3 DEF CacheBacked, Exists
<1>9. QED BY <1>4, <1>5, <1>6, <1>7, <1>8

LEMMA CreateKeepsInv ==
  ASSUME IInv, TypeOK', NEW s \in Scans, NEW ok \in BOOLEAN, Create(s, ok)
  PROVE  IInv'
<1> USE ScanLifecycleAssumption DEF IInv
<1>1. /\ UNCHANGED <<graded, cache, outcome, saved, slot>>
      /\ status[s] = "none" /\ status' = [status EXCEPT ![s] = "queued"]
      /\ \/ pc' = [pc EXCEPT ![s] = "waiting"]
         \/ pc' = [pc EXCEPT ![s] = "lost"]
  BY DEF Create
<1>2. pc[s] = "none" /\ ~saved[s] /\ ~graded[s]
  BY <1>1 DEF Phases, GradeMeansCompleted
<1>3. SlotHolder'
  BY <1>1, <1>2 DEF SlotHolder, TypeOK, Active
<1>4. Phases' /\ AckedMeansClosed'
  BY <1>1, <1>2 DEF Phases, AckedMeansClosed, TypeOK
<1>5. VerdictOwned' /\ GradeMeansCompleted'
  BY <1>1, <1>2 DEF VerdictOwned, GradeMeansCompleted, Verdicts, Unwritten, TypeOK
<1>6. CachedIsSaved' /\ CacheBacked'
  BY <1>1 DEF CachedIsSaved, CacheBacked, Exists, TypeOK
<1>7. QED BY <1>3, <1>4, <1>5, <1>6

LEMMA DeleteCachedKeepsInv ==
  ASSUME IInv, TypeOK',
         UNCHANGED <<status, graded, pc, outcome, saved, slot>>,
         \A t \in Targets : cache'[t] = cache[t] \/ cache'[t] = NoEntry
  PROVE  IInv'
<1> USE ScanLifecycleAssumption DEF IInv
<1>1. SlotHolder' /\ Phases' /\ VerdictOwned' /\ GradeMeansCompleted' /\ AckedMeansClosed'
  BY DEF SlotHolder, Phases, VerdictOwned, GradeMeansCompleted, AckedMeansClosed
<1>2. CachedIsSaved' /\ CacheBacked'
  BY DEF CachedIsSaved, CacheBacked, NoEntry, Exists
<1>3. QED BY <1>1, <1>2

LEMMA RestartKeepsInv ==
  ASSUME IInv, TypeOK', Restart
  PROVE  IInv'
<1> USE ScanLifecycleAssumption DEF IInv
<1>1. /\ UNCHANGED <<status, graded, cache, outcome, saved>>
      /\ slot' = NoScan
      /\ \A s \in Scans : pc'[s] = IF pc[s] \in Active \cup {"waiting"} THEN "lost" ELSE pc[s]
  BY DEF Restart, row
<1>2. SlotHolder'
  BY <1>1 DEF SlotHolder, Active
<1>3. Phases' /\ AckedMeansClosed'
  BY <1>1 DEF Phases, AckedMeansClosed, Active
<1>4. VerdictOwned' /\ GradeMeansCompleted'
  BY <1>1 DEF VerdictOwned, GradeMeansCompleted, Unwritten
<1>5. CachedIsSaved' /\ CacheBacked'
  BY <1>1 DEF CachedIsSaved, CacheBacked, Exists
<1>6. QED BY <1>2, <1>3, <1>4, <1>5

LEMMA InvStep == IInv /\ [Next]_vars => IInv'
<1> SUFFICES ASSUME IInv, [Next]_vars PROVE IInv'
  OBVIOUS
<1>1. TypeOK /\ TypeOK'
  BY TypeStep DEF IInv
<1>2. CASE UNCHANGED vars
  BY <1>1, <1>2, ClosingKeepsInv DEF vars, row, worker
<1>3. ASSUME NEW s \in Scans, AcquireSlot(s) \/ PipelineRaises(s) \/ Enrich(s)
      PROVE  IInv'
  <2>1. CASE AcquireSlot(s)
    BY <2>1, <1>1, MovingKeepsInv DEF AcquireSlot, row
  <2>2. CASE PipelineRaises(s)
    BY <2>2, <1>1, MovingKeepsInv DEF PipelineRaises, GoTo, row
  <2>3. CASE Enrich(s)
    BY <2>3, <1>1, MovingKeepsInv DEF Enrich, Finish, row, Active
  <2>4. QED BY <1>3, <2>1, <2>2, <2>3
<1>4. ASSUME NEW s \in Scans, NEW ok \in BOOLEAN, VerifyTerminal(s, ok) PROVE IInv'
  BY <1>4, <1>1, MovingKeepsInv DEF VerifyTerminal, AfterFinally, GoTo, Finish, row, Active
<1>5. ASSUME NEW s \in Scans, NEW ok \in BOOLEAN, CancelWrite(s, ok) \/ ReapRow(s, ok)
      PROVE  IInv'
  <2>1. PICK reason \in {"cancelled", "reaped"} : CloseAsFailed(s, ok, reason)
    BY <1>5 DEF CancelWrite, ReapRow
  <2>2. UNCHANGED <<cache, pc, outcome, saved, slot>>
    BY <1>5 DEF CancelWrite, ReapRow, worker
  <2>3. QED BY <1>1, <2>1, <2>2, CloseEffect, ClosingKeepsInv
<1>6. ASSUME UNCHANGED <<status, graded, cache, pc, outcome, saved, slot>> PROVE IInv'
  BY <1>1, <1>6, ClosingKeepsInv
<1>7. ASSUME NEW s \in Scans, Age(s) \/ CancelCheck(s) \/ DeleteCheck(s) PROVE IInv'
  BY <1>6, <1>7 DEF Age, CancelCheck, DeleteCheck, row, worker
<1>8. ASSUME NEW sweep \in {"queued", "running"}, ReapSelect(sweep) PROVE IInv'
  BY <1>6, <1>8 DEF ReapSelect, row, worker
<1>9. CASE ClearCheck \/ ReapEnd
  BY <1>6, <1>9 DEF ClearCheck, ReapEnd, row, worker
<1>10. ASSUME NEW s \in Scans, DeleteCached(s) PROVE IInv'
  BY <1>1, <1>10, DeleteCachedKeepsInv DEF DeleteCached, row, worker
<1>11. CASE ClearCached
  BY <1>1, <1>11, DeleteCachedKeepsInv DEF ClearCached, row, worker
<1>12. ASSUME NEW s \in Scans, DeleteRow(s) PROVE IInv'
  BY <1>1, <1>12, DeletingKeepsInv DEF DeleteRow, worker
<1>13. CASE ClearRows
  BY <1>1, <1>13, DeletingKeepsInv DEF ClearRows, worker
<1>14. QED
  BY NextCases, <1>1, <1>2, <1>3, <1>4, <1>5, <1>7, <1>8, <1>9, <1>10, <1>11, <1>12, <1>13,
     MarkRunningKeepsInv, WorkerClosesKeepsInv, UpsertCacheKeepsInv, CreateKeepsInv,
     PipelineReturnsKeepsInv, PersistScanKeepsInv, RestartKeepsInv

THEOREM Invariance == Spec => []IInv
BY InvInit, InvStep, PTL DEF Spec

\* No closing write, however late it lands, leaves a grade behind it.
THEOREM GradeSafety == Spec => []GradeMeansCompleted
BY Invariance, PTL DEF IInv

\* A named cache entry is always backed by an existing scan and its own result.
THEOREM CacheSafety == Spec => []CacheBacked
BY Invariance, PTL DEF IInv

\* An acknowledged terminal write closes the row for good.
THEOREM ClosedSafety == Spec => []AckedMeansClosed
BY Invariance, PTL DEF IInv

-----------------------------------------------------------------------------
(* The rows implement the verdict board *)

\* A step that leaves every place as it is, or empties it, withdraws the places
\* it empties.
LEMMA WithdrawStep ==
  ASSUME \A r \in Scans : BoardOf(r)' = BoardOf(r) \/ BoardOf(r)' = "void"
  PROVE  Board!Next
<1> DEFINE S == {r \in Scans : BoardOf(r)' = "void"}
<1>1. [r \in Scans |-> BoardOf(r)]'
        = [r \in Scans |-> IF r \in S THEN "void" ELSE [q \in Scans |-> BoardOf(q)][r]]
  OBVIOUS
<1>2. Board!Withdraw(S)
  BY <1>1 DEF Board!Withdraw
<1>3. QED BY <1>2 DEF Board!Next

\* The places of a worker that takes no part in publishing.
LEMMA RowStep ==
  ASSUME IInv,
         \A r \in Scans :
           \/ pc'[r] = pc[r]
           \/ pc[r] \notin Unwritten /\ pc'[r] \notin Unwritten
           \/ pc'[r] \in {"lost", "broken"}
           \/ pc[r] \in Unwritten /\ pc'[r] \in Unwritten,
         \A r \in Scans :
           \/ status'[r] = status[r]
           \/ status[r] # "deleted" /\ status'[r] \in {"failed", "deleted"}
           \/ status[r] \notin Verdicts \cup {"deleted"} /\ status'[r] \in {"queued", "running"}
  PROVE  Board!Next
<1>1. \A r \in Scans : BoardOf(r)' = BoardOf(r) \/ BoardOf(r)' = "void"
  BY DEF IInv, VerdictOwned, BoardOf, Verdicts, Unwritten
<1>2. QED BY <1>1, WithdrawStep

LEMMA PublishStep ==
  ASSUME IInv, NEW s \in Scans, NEW landed \in BOOLEAN, NEW acked \in BOOLEAN,
         PersistScan(s, landed, acked)
  PROVE  Board!Next
<1> DEFINE verdict == VerdictOf(outcome[s])
           letter == verdict = "completed"
<1>1. Patch(s, landed, verdict, letter, error[s])
  BY DEF PersistScan
<1>2. \A r \in Scans :
        \/ status'[r] = status[r] /\ ~(r = s /\ landed /\ Exists(s))
        \/ r = s /\ landed /\ Exists(s) /\ status'[r] = verdict
  <2> HIDE DEF verdict, letter
  <2>1. QED BY <1>1, PatchEffect DEF IInv
<1>3. /\ pc[s] = "persisting" /\ pc'[s] \in {"caching", "unsaved"}
      /\ \A r \in Scans : r # s => pc'[r] = pc[r]
  BY DEF PersistScan, GoTo, IInv, TypeOK
<1>4. verdict \in Verdicts /\ status[s] \notin Verdicts
  BY <1>3 DEF VerdictOf, Verdicts, IInv, VerdictOwned, Unwritten
<1> HIDE DEF verdict, letter
<1>5. CASE landed /\ Exists(s)
  <2>1. BoardOf(s) = "pending" /\ BoardOf(s)' = verdict
    BY <1>2, <1>3, <1>4, <1>5 DEF BoardOf, Unwritten, Exists
  <2>2. \A r \in Scans : r # s => BoardOf(r)' = BoardOf(r)
    BY <1>2, <1>3 DEF BoardOf
  <2>3. [r \in Scans |-> BoardOf(r)]'
          = [[r \in Scans |-> BoardOf(r)] EXCEPT ![s] = verdict]
    BY <2>1, <2>2
  <2>4. Board!Publish(s, verdict)
    BY <2>1, <2>3 DEF Board!Publish
  <2>5. QED BY <1>4, <2>4 DEF Board!Next
<1>6. CASE ~(landed /\ Exists(s))
  <2>1. \A r \in Scans : BoardOf(r)' = BoardOf(r) \/ BoardOf(r)' = "void"
    BY <1>2, <1>3, <1>4, <1>6 DEF BoardOf, Unwritten
  <2>2. QED BY <2>1, WithdrawStep
<1>7. QED BY <1>5, <1>6

LEMMA BoardInit == Init => Board!Init
BY DEF Init, Board!Init, BoardOf, Verdicts, Unwritten

LEMMA BoardStep == IInv /\ [Next]_vars => [Board!Next]_([s \in Scans |-> BoardOf(s)])
<1> SUFFICES ASSUME IInv, [Next]_vars, ~UNCHANGED [s \in Scans |-> BoardOf(s)]
             PROVE  Board!Next
  OBVIOUS
<1> USE DEF IInv
<1>1. CASE UNCHANGED vars
  BY <1>1, RowStep DEF vars, row, worker
<1>2. ASSUME NEW s \in Scans, AcquireSlot(s) \/ PipelineRaises(s) \/ Enrich(s) PROVE Board!Next
  BY <1>2, RowStep
     DEF AcquireSlot, PipelineRaises, Enrich, GoTo, Finish, row, TypeOK, Unwritten
<1>3. ASSUME NEW s \in Scans, NEW ok \in BOOLEAN, MarkRunning(s, ok) PROVE Board!Next
  <2>1. \A r \in Scans :
          \/ status'[r] = status[r]
          \/ r = s /\ Exists(s) /\ status'[r] = "running"
    BY <1>3, PatchEffect DEF MarkRunning
  <2>2. pc[s] = "starting" /\ pc' = [pc EXCEPT ![s] = "scanning"]
    BY <1>3 DEF MarkRunning, GoTo
  <2>3. status[s] \notin Verdicts
    BY <2>2 DEF VerdictOwned, Unwritten
  <2>4. QED BY <2>1, <2>2, <2>3, RowStep DEF TypeOK, Unwritten, Exists
<1>4. ASSUME NEW s \in Scans, NEW ok \in BOOLEAN,
             \/ MarkBroken(s, ok) \/ MarkUnsaved(s, ok) \/ ForceFailed(s, ok)
             \/ CancelWrite(s, ok) \/ ReapRow(s, ok)
      PROVE  Board!Next
  <2>1. PICK reason : CloseAsFailed(s, ok, reason)
    BY <1>4 DEF MarkBroken, MarkUnsaved, ForceFailed, CancelWrite, ReapRow
  <2>2. \A r \in Scans :
          \/ status'[r] = status[r]
          \/ status[r] # "deleted" /\ status'[r] = "failed"
    BY <2>1, CloseEffect DEF Exists
  <2>3. \A r \in Scans :
          \/ pc'[r] = pc[r]
          \/ pc[r] \notin Unwritten /\ pc'[r] \notin Unwritten
    BY <1>4 DEF MarkBroken, MarkUnsaved, ForceFailed, CancelWrite, ReapRow, AfterFinally,
                GoTo, Finish, worker, TypeOK, Unwritten
  <2>4. QED BY <2>2, <2>3, RowStep
<1>5. ASSUME NEW s \in Scans, NEW ok \in BOOLEAN, UpsertCache(s, ok) \/ VerifyTerminal(s, ok)
      PROVE  Board!Next
  BY <1>5, RowStep
     DEF UpsertCache, VerifyTerminal, AfterFinally, GoTo, Finish, row, TypeOK, Unwritten
<1>6. ASSUME NEW s \in Scans, NEW ok \in BOOLEAN, Create(s, ok) PROVE Board!Next
  <2>1. pc[s] = "none" BY <1>6 DEF Create, Phases
  <2>2. QED BY <1>6, <2>1, RowStep DEF Create, TypeOK, Unwritten, Verdicts
<1>7. ASSUME NEW s \in Scans, NEW o \in Results, NEW ok \in BOOLEAN, PipelineReturns(s, o, ok)
      PROVE  Board!Next
  BY <1>7, RowStep DEF PipelineReturns, GoTo, row, TypeOK, Unwritten
<1>8. ASSUME UNCHANGED <<status, pc>> PROVE Board!Next
  BY <1>8, RowStep
<1>9. ASSUME NEW s \in Scans, Age(s) \/ CancelCheck(s) \/ DeleteCheck(s) \/ DeleteCached(s)
      PROVE  Board!Next
  BY <1>8, <1>9 DEF Age, CancelCheck, DeleteCheck, DeleteCached, row, worker
<1>10. ASSUME NEW sweep \in {"queued", "running"}, ReapSelect(sweep) PROVE Board!Next
  BY <1>8, <1>10 DEF ReapSelect, row, worker
<1>11. CASE ClearCheck \/ ClearCached \/ ReapEnd
  BY <1>8, <1>11 DEF ClearCheck, ClearCached, ReapEnd, row, worker
<1>12. ASSUME NEW S \in SUBSET Scans, DeleteRows(S), UNCHANGED worker PROVE Board!Next
  BY <1>12, RowStep DEF DeleteRows, Exists, worker
<1>13. ASSUME NEW s \in Scans, DeleteRow(s) PROVE Board!Next
  BY <1>12, <1>13 DEF DeleteRow
<1>14. CASE ClearRows
  BY <1>12, <1>14 DEF ClearRows
<1>15. CASE Restart
  BY <1>15, RowStep DEF Restart, row, TypeOK, Unwritten, Active
<1>16. QED
  BY NextCases, PublishStep, <1>1, <1>2, <1>3, <1>4, <1>5, <1>6, <1>7, <1>9, <1>10, <1>11,
     <1>13, <1>14, <1>15

\* Each verdict is published at most once: whatever races the worker, a
\* withdrawn verdict stays withdrawn and none is replaced by another.
THEOREM Refinement == Spec => VerdictPublishedOnce
<1>1. Init /\ IInv => Board!Init
  BY BoardInit
<1>2. IInv /\ [Next]_vars => [Board!Next]_([s \in Scans |-> BoardOf(s)])
  BY BoardStep
<1>3. QED BY <1>1, <1>2, BoardInit, Invariance, PTL DEF Spec, VerdictPublishedOnce, Board!Spec

-----------------------------------------------------------------------------
(* HookGate: the inductive invariant *)

UnrunIsUnknown == \A s \in Scans : pc[s] = "none" => outcome[s] = "unknown"

\* While no call was lost, what a run found severe is in the findings table
\* for as long as the scan's row is there.
SevereIsStored ==
  lost = 0 => \A s \in Scans : Exists(s) /\ Serious(outcome[s]) => stored[s]

\* A check that read a cached verdict holds what the run of a finished scan
\* concluded; that run does not conclude anything else any more.
EntryIsSaved(m) ==
  m.entry.scan \in Scans => /\ saved[m.entry.scan]
                            /\ outcome[m.entry.scan] # "unknown"
                            /\ m.entry.status = VerdictOf(outcome[m.entry.scan])

\* A denial waits for the overrides to be read, and stands only without one.
DenialIsNotSpared(m) ==
  /\ m.step = "denied" => m.answer \in Denials
  /\ m.step = "answered" /\ m.answer \in Denials => ~m.spared

CleanWasEarned(m) ==
  m.step = "answered" /\ m.answer = "allow_clean" /\ m.known # "gone" =>
    /\ m.entry.scan \in Scans
    /\ \/ outcome[m.entry.scan] = "clean"
       \/ m.known = "dismissed" /\ VerdictOf(outcome[m.entry.scan]) = "completed"

Fair(m) ==
  /\ EntryIsSaved(m)
  /\ m.spared => m.target \in waived
  /\ DenialIsNotSpared(m)
  /\ lost = 0 => CleanWasEarned(m)

HookInv ==
  /\ IInv
  /\ HookTypeOK
  /\ UnrunIsUnknown
  /\ SevereIsStored
  /\ \A c \in Checks : Fair(check[c])

-----------------------------------------------------------------------------
(* What the scan service does to it *)

LEMMA LostType ==
  ASSUME TypeOK, NEW ok \in BOOLEAN, Call(ok)
  PROVE  lost \in Nat /\ lost' \in Nat /\ lost' >= lost /\ (~ok => lost' > 0)
BY ScanLifecycleAssumption DEF TypeOK, Call

\* What the checks and the findings table rest on.
ScanKept ==
  /\ UnrunIsUnknown'
  /\ SevereIsStored'
  /\ \A s \in Scans : saved[s] => saved'[s] /\ outcome'[s] = outcome[s]
  /\ lost' = 0 => lost = 0

\* A step that neither brings a row into being nor ends a run.
LEMMA QuietStep ==
  ASSUME UnrunIsUnknown, SevereIsStored, lost \in Nat, lost' \in Nat, lost' >= lost,
         UNCHANGED <<stored, outcome>>,
         \A s \in Scans : Exists(s)' => Exists(s),
         \A s \in Scans : pc'[s] = "none" => pc[s] = "none",
         \A s \in Scans : saved[s] => saved'[s]
  PROVE  ScanKept
<1>1. lost' = 0 => lost = 0
  OBVIOUS
<1>2. UnrunIsUnknown'
  BY DEF UnrunIsUnknown
<1>3. SevereIsStored'
  BY <1>1 DEF SevereIsStored
<1>4. QED BY <1>1, <1>2, <1>3 DEF ScanKept

LEMMA PatchKeepsAbsence ==
  ASSUME TypeOK, NEW s \in Scans, NEW landed \in BOOLEAN,
         NEW st \in Statuses, NEW g, NEW e, Patch(s, landed, st, g, e)
  PROVE  \A r \in Scans : Exists(r)' => Exists(r)
<1>1. \A r \in Scans : status'[r] = status[r] \/ Exists(r)
  BY PatchEffect
<1>2. QED BY <1>1 DEF Exists

LEMMA WorkerWritesQuietly ==
  ASSUME IInv, UnrunIsUnknown, SevereIsStored, NEW s \in Scans, NEW ok \in BOOLEAN,
         \/ MarkRunning(s, ok) \/ MarkBroken(s, ok) \/ UpsertCache(s, ok)
         \/ MarkUnsaved(s, ok) \/ VerifyTerminal(s, ok) \/ ForceFailed(s, ok)
         \/ CancelWrite(s, ok) \/ ReapRow(s, ok)
  PROVE  ScanKept
<1>0. TypeOK
  BY DEF IInv
<1>1. UNCHANGED <<stored, outcome>> /\ Call(ok)
  BY DEF MarkRunning, MarkBroken, UpsertCache, MarkUnsaved, VerifyTerminal, ForceFailed,
         CancelWrite, ReapRow, worker
<1>2. lost \in Nat /\ lost' \in Nat /\ lost' >= lost
  BY <1>0, <1>1, LostType
<1>3. \A r \in Scans : Exists(r)' => Exists(r)
  <2>1. ASSUME NEW reason, CloseAsFailed(s, ok, reason)
        PROVE  \A r \in Scans : Exists(r)' => Exists(r)
    BY <1>0, <2>1, PatchKeepsAbsence DEF CloseAsFailed, Statuses
  <2>2. CASE MarkRunning(s, ok)
    BY <1>0, <2>2, PatchKeepsAbsence DEF MarkRunning, Statuses, Open
  <2>3. CASE UpsertCache(s, ok) \/ VerifyTerminal(s, ok)
    BY <2>3 DEF UpsertCache, VerifyTerminal, row, Exists
  <2>4. CASE \/ MarkBroken(s, ok) \/ MarkUnsaved(s, ok) \/ ForceFailed(s, ok)
             \/ CancelWrite(s, ok) \/ ReapRow(s, ok)
    BY <2>1, <2>4 DEF MarkBroken, MarkUnsaved, ForceFailed, CancelWrite, ReapRow
  <2>5. QED BY <2>2, <2>3, <2>4
<1>4. \A r \in Scans : pc'[r] = "none" => pc[r] = "none"
  <2>1. pc' = pc \/ \E label : label # "none" /\ pc' = [pc EXCEPT ![s] = label]
    <3>1. CASE CancelWrite(s, ok) \/ ReapRow(s, ok)
      BY <3>1 DEF CancelWrite, ReapRow, worker
    <3>2. CASE VerifyTerminal(s, ok) \/ ForceFailed(s, ok)
      BY <3>2 DEF VerifyTerminal, ForceFailed, AfterFinally, GoTo, Finish
    <3>3. CASE MarkRunning(s, ok) \/ MarkBroken(s, ok) \/ UpsertCache(s, ok) \/ MarkUnsaved(s, ok)
      BY <3>3 DEF MarkRunning, MarkBroken, UpsertCache, MarkUnsaved, GoTo, Finish
    <3>4. QED BY <3>1, <3>2, <3>3
  <2>2. QED BY <1>0, <2>1 DEF TypeOK
<1>5. \A r \in Scans : saved[r] => saved'[r]
  <2>1. saved' = saved \/ saved' = [saved EXCEPT ![s] = TRUE]
    BY DEF MarkRunning, MarkBroken, UpsertCache, MarkUnsaved, VerifyTerminal, ForceFailed,
           CancelWrite, ReapRow, worker
  <2>2. QED BY <1>0, <2>1 DEF TypeOK
<1>6. QED BY <1>1, <1>2, <1>3, <1>4, <1>5, QuietStep

LEMMA PersistScanQuietly ==
  ASSUME IInv, UnrunIsUnknown, SevereIsStored, NEW s \in Scans,
         NEW landed \in BOOLEAN, NEW acked \in BOOLEAN, PersistScan(s, landed, acked)
  PROVE  ScanKept
<1>0. TypeOK
  BY DEF IInv
<1>1. lost \in Nat /\ lost' \in Nat /\ lost' >= lost /\ UNCHANGED <<stored, outcome, saved>>
  BY <1>0, LostType DEF PersistScan
<1>2. \A r \in Scans : Exists(r)' => Exists(r)
  <2>1. VerdictOf(outcome[s]) \in Statuses
    BY VerdictOfType
  <2>2. \E g, e : Patch(s, landed, VerdictOf(outcome[s]), g, e)
    BY DEF PersistScan
  <2>3. QED BY <1>0, <2>1, <2>2, PatchKeepsAbsence
<1>3. \A r \in Scans : pc'[r] = "none" => pc[r] = "none"
  BY <1>0 DEF PersistScan, GoTo, TypeOK
<1>4. QED BY <1>1, <1>2, <1>3, QuietStep

\* The run ends: what it found is in memory, and in the table if the write was
\* not lost.
LEMMA PipelineReturnsKeeps ==
  ASSUME IInv, UnrunIsUnknown, SevereIsStored, NEW s \in Scans, NEW o \in Results,
         NEW ok \in BOOLEAN, PipelineReturns(s, o, ok)
  PROVE  ScanKept
<1>0. TypeOK
  BY DEF IInv
<1>1. /\ pc[s] = "scanning" /\ UNCHANGED <<status, saved>>
      /\ outcome' = [outcome EXCEPT ![s] = o]
      /\ stored' = [stored EXCEPT ![s] = Serious(o) /\ ok /\ Exists(s)]
      /\ pc' = [pc EXCEPT ![s] = "persisting"]
  BY DEF PipelineReturns, GoTo, row
<1>2. lost \in Nat /\ lost' \in Nat /\ lost' >= lost /\ (~ok => lost' > 0)
  BY <1>0, LostType DEF PipelineReturns
<1>3. \A r \in Scans : r # s => outcome'[r] = outcome[r] /\ stored'[r] = stored[r] /\ pc'[r] = pc[r]
  BY <1>0, <1>1 DEF TypeOK
<1>4. pc'[s] = "persisting" /\ outcome'[s] = o /\ stored'[s] = (Serious(o) /\ ok /\ Exists(s))
  BY <1>0, <1>1 DEF TypeOK
<1>5. UnrunIsUnknown'
  BY <1>3, <1>4 DEF UnrunIsUnknown
<1>6. SevereIsStored'
  <2> SUFFICES ASSUME lost' = 0, NEW r \in Scans, Exists(r)', Serious(outcome'[r])
               PROVE  stored'[r]
    BY DEF SevereIsStored
  <2>1. lost = 0 /\ ok
    BY <1>2
  <2>2. Exists(r)
    BY <1>1 DEF Exists
  <2>3. CASE r = s
    BY <1>4, <2>1, <2>2, <2>3
  <2>4. CASE r # s
    BY <1>3, <2>1, <2>2, <2>4 DEF SevereIsStored
  <2>5. QED BY <2>3, <2>4
<1>7. \A r \in Scans : saved[r] => r # s
  BY <1>1 DEF IInv, Phases
<1>8. QED BY <1>1, <1>2, <1>3, <1>5, <1>6, <1>7 DEF ScanKept

LEMMA CreateKeeps ==
  ASSUME IInv, UnrunIsUnknown, SevereIsStored, NEW s \in Scans, NEW ok \in BOOLEAN, Create(s, ok)
  PROVE  ScanKept
<1>0. TypeOK
  BY DEF IInv
<1>1. /\ status[s] = "none" /\ UNCHANGED <<stored, outcome, saved>>
      /\ status' = [status EXCEPT ![s] = "queued"]
      /\ \E label \in {"waiting", "lost"} : pc' = [pc EXCEPT ![s] = label]
  BY DEF Create
<1>2. lost \in Nat /\ lost' \in Nat /\ lost' >= lost
  BY <1>0, LostType DEF Create
<1>3. \A r \in Scans : Exists(r)' => Exists(r) \/ r = s
  BY <1>0, <1>1 DEF Exists, TypeOK
<1>4. ~Serious(outcome[s])
  BY <1>1 DEF IInv, Phases, UnrunIsUnknown, Serious
<1>5. UnrunIsUnknown'
  BY <1>0, <1>1 DEF UnrunIsUnknown, TypeOK
<1>6. SevereIsStored'
  BY <1>1, <1>2, <1>3, <1>4 DEF SevereIsStored
<1>7. QED BY <1>1, <1>2, <1>5, <1>6 DEF ScanKept

LEMMA DeleteRowsKeeps ==
  ASSUME IInv, UnrunIsUnknown, SevereIsStored, NEW S \in SUBSET Scans, DeleteRows(S),
         UNCHANGED <<pc, outcome, saved, lost>>
  PROVE  ScanKept
<1>1. \A r \in Scans : Exists(r)' => Exists(r) /\ r \notin S
  BY DEF DeleteRows, Exists, IInv, TypeOK
<1>2. \A r \in Scans \ S : stored'[r] = stored[r]
  BY DEF DeleteRows, IInv, TypeOK
<1>3. SevereIsStored'
  BY <1>1, <1>2 DEF SevereIsStored
<1>4. QED BY <1>3 DEF ScanKept, UnrunIsUnknown

LEMMA ScanStep ==
  ASSUME IInv, UnrunIsUnknown, SevereIsStored, [Next]_vars
  PROVE  ScanKept
<1>0. TypeOK /\ lost \in Nat
  BY ScanLifecycleAssumption DEF IInv, TypeOK
<1>1. ASSUME UNCHANGED <<status, stored, outcome, saved, lost>>,
             \A r \in Scans : pc'[r] = "none" => pc[r] = "none"
      PROVE  ScanKept
  BY <1>0, <1>1, QuietStep DEF Exists
<1>2. CASE UNCHANGED vars
  BY <1>1, <1>2 DEF vars, row, worker, faults
<1>3. ASSUME NEW s \in Scans, AcquireSlot(s) \/ PipelineRaises(s) \/ Enrich(s) \/ Age(s)
      PROVE  ScanKept
  <2>1. pc' = pc \/ \E label : label # "none" /\ pc' = [pc EXCEPT ![s] = label]
    BY <1>3 DEF AcquireSlot, PipelineRaises, Enrich, Age, GoTo, Finish, worker
  <2>2. \A r \in Scans : pc'[r] = "none" => pc[r] = "none"
    BY <1>0, <2>1 DEF TypeOK
  <2>3. UNCHANGED <<status, stored, outcome, saved, lost>>
    BY <1>3 DEF AcquireSlot, PipelineRaises, Enrich, Age, row, worker, faults
  <2>4. QED BY <1>1, <2>2, <2>3
<1>4. ASSUME NEW s \in Scans, NEW ok \in BOOLEAN,
             \/ MarkRunning(s, ok) \/ MarkBroken(s, ok) \/ UpsertCache(s, ok)
             \/ MarkUnsaved(s, ok) \/ VerifyTerminal(s, ok) \/ ForceFailed(s, ok)
             \/ CancelWrite(s, ok) \/ ReapRow(s, ok)
      PROVE  ScanKept
  BY <1>4, WorkerWritesQuietly
<1>5. ASSUME NEW s \in Scans, NEW ok \in BOOLEAN, Create(s, ok) PROVE ScanKept
  BY <1>5, CreateKeeps
<1>6. ASSUME NEW s \in Scans, NEW o \in Results, NEW ok \in BOOLEAN, PipelineReturns(s, o, ok)
      PROVE  ScanKept
  BY <1>6, PipelineReturnsKeeps
<1>7. ASSUME NEW s \in Scans, NEW landed \in BOOLEAN, NEW acked \in BOOLEAN,
             PersistScan(s, landed, acked)
      PROVE  ScanKept
  BY <1>7, PersistScanQuietly
<1>8. ASSUME NEW s \in Scans, CancelCheck(s) \/ DeleteCheck(s) \/ DeleteCached(s) PROVE ScanKept
  <2>1. UNCHANGED <<status, stored, outcome, saved, lost, pc>>
    BY <1>8 DEF CancelCheck, DeleteCheck, DeleteCached, row, worker, faults
  <2>2. QED BY <1>1, <2>1
<1>9. ASSUME NEW s \in Scans, DeleteRow(s) PROVE ScanKept
  BY <1>9, DeleteRowsKeeps DEF DeleteRow, worker, faults
<1>10. CASE ClearRows
  BY <1>10, DeleteRowsKeeps DEF ClearRows, worker, faults
<1>11. ASSUME \/ \E sweep \in {"queued", "running"} : ReapSelect(sweep)
              \/ ClearCheck \/ ClearCached \/ ReapEnd
       PROVE  ScanKept
  <2>1. UNCHANGED <<status, stored, outcome, saved, lost, pc>>
    BY <1>11 DEF ReapSelect, ClearCheck, ClearCached, ReapEnd, row, worker, faults
  <2>2. QED BY <1>1, <2>1
<1>12. CASE Restart
  <2>1. \A r \in Scans : pc'[r] = "none" => pc[r] = "none"
    BY <1>0, <1>12 DEF Restart, TypeOK
  <2>2. UNCHANGED <<status, stored, outcome, saved, lost>>
    BY <1>12 DEF Restart, row
  <2>3. QED BY <1>1, <2>1, <2>2
<1>13. QED
  BY NextCases, <1>2, <1>3, <1>4, <1>5, <1>6, <1>7, <1>8, <1>9, <1>10, <1>11, <1>12

-----------------------------------------------------------------------------
(* Checks *)

CheckSteps == {"idle", "missed", "counted", "cached", "denied", "answered"}

CheckRecords ==
  [step : CheckSteps, target : Targets, entry : Entries, answer : Answers \cup {"none"},
   known : {"none", "there", "dismissed", "gone"}, spared : BOOLEAN]

LEMMA QuietType == Quiet \in CheckRecords /\ Quiet.step = "idle" /\ ~Quiet.spared /\ Quiet.entry = NoEntry
<1>1. (CHOOSE t \in Targets : TRUE) \in Targets
  BY HookGateAssumption
<1>2. NoEntry \in Entries
  BY DEF Entries
<1>3. QED BY <1>1, <1>2 DEF Quiet, CheckRecords, CheckSteps

\* A check that is answered keeps what it read.
LEMMA AnsweredType ==
  ASSUME HookTypeOK, NEW c \in Checks, NEW answer \in Answers
  PROVE  /\ Answered(c, answer) \in CheckRecords
         /\ Answered(c, answer).step = "answered" /\ Answered(c, answer).answer = answer
         /\ Answered(c, answer).entry = check[c].entry
         /\ Answered(c, answer).target = check[c].target
         /\ Answered(c, answer).known = check[c].known
         /\ Answered(c, answer).spared = check[c].spared
BY DEF HookTypeOK, Answered, CheckRecords, CheckSteps

DecisionsOf == {"block", "block_incomplete", "allow_clean"}

LEMMA DecisionType ==
  /\ DecisionsOf \subseteq Answers
  /\ \A e : Decision(e) \in DecisionsOf
  /\ \A e : Decision(e) = "allow_clean" <=> ~Blocks(e) /\ ~Unverified(e)
BY DEF DecisionsOf, Answers, Denials, Decision, Blocks, Unverified

\* Every step of the gate is one of the service's, or leaves it alone.
LEMMA ServiceSteps == [HookNext]_hookVars => [Next]_vars
<1> SUFFICES ASSUME [HookNext]_hookVars PROVE [Next]_vars
  OBVIOUS
<1>1. CASE Service
  <2>1. ASSUME NEW s \in Scans, Runs(s) PROVE Next
    BY <2>1 DEF Runs, Next
  <2>2. CASE Requests
    BY <2>2 DEF Next
  <2>3. QED BY <1>1, <2>1, <2>2 DEF Service
<1>2. CASE Person
  BY <1>2 DEF Person, CreateOverride, OverrideExpires, TriageFinding
<1>3. ASSUME NEW c \in Checks, Ask(c) PROVE [Next]_vars
  <2>1. ASSUME NEW s \in Scans, NEW ok \in BOOLEAN, QueueFirstScan(c, s, ok) PROVE Next
    BY <2>1 DEF QueueFirstScan, Next, Requests
  <2>2. QED BY <1>3, <2>1 DEF Ask, ReadCache, ReadFindings, ReadOverrides, Refuse, Count, Hear
<1>4. CASE UNCHANGED hookVars
  BY <1>4 DEF hookVars
<1>5. QED BY <1>1, <1>2, <1>3, <1>4 DEF HookNext

\* A check that nobody touches stays fair as long as its override does.
LEMMA FairKept ==
  ASSUME HookInv, ScanKept, NEW c \in Checks, check'[c] = check[c],
         check[c].spared => check[c].target \in waived'
  PROVE  Fair(check[c])'
<1>1. Fair(check[c]) /\ check[c].entry \in Entries
  BY DEF HookInv, HookTypeOK
<1>2. EntryIsSaved(check[c])'
  BY <1>1 DEF Fair, EntryIsSaved, ScanKept
<1>3. lost' = 0 => CleanWasEarned(check[c])'
  BY <1>1 DEF Fair, EntryIsSaved, CleanWasEarned, ScanKept
<1>4. DenialIsNotSpared(check[c])'
  BY <1>1 DEF Fair, DenialIsNotSpared
<1>5. QED BY <1>2, <1>3, <1>4 DEF Fair

\* A check that is asked, answered or refused leaves the others alone.
LEMMA OneCheck ==
  ASSUME HookInv, ScanKept, waived' = waived, NEW c \in Checks, NEW m \in CheckRecords,
         check' = [check EXCEPT ![c] = m]
  PROVE  /\ check' \in [Checks -> CheckRecords] /\ check'[c] = m
         /\ Fair(check[c])' => \A d \in Checks : Fair(check[d])'
<1>1. check \in [Checks -> CheckRecords]
  BY DEF HookInv, HookTypeOK, CheckRecords, CheckSteps
<1>2. check'[c] = m /\ \A d \in Checks : d # c => check'[d] = check[d]
  BY <1>1
<1>3. ASSUME NEW d \in Checks, d # c PROVE Fair(check[d])'
  <2>1. check[d].spared => check[d].target \in waived'
    BY DEF HookInv, Fair
  <2>2. QED BY <1>2, <1>3, <2>1, FairKept
<1>4. QED BY <1>1, <1>2, <1>3

\* An answer that neither denies nor calls clean.
LEMMA PlainAnswer ==
  ASSUME HookInv, ScanKept, waived' = waived, NEW c \in Checks,
         NEW answer \in Answers \ (Denials \cup {"allow_clean"}), Answer(c, answer)
  PROVE  check' \in [Checks -> CheckRecords] /\ \A d \in Checks : Fair(check[d])'
<1> DEFINE m == Answered(c, answer)
<1>1. /\ m \in CheckRecords /\ m.answer = answer /\ m.step = "answered"
      /\ m.entry = check[c].entry /\ m.target = check[c].target /\ m.spared = check[c].spared
  BY AnsweredType DEF HookInv
<1>2. check' = [check EXCEPT ![c] = m]
  BY DEF Answer
<1> HIDE DEF m
<1>3. check' \in [Checks -> CheckRecords] /\ check'[c] = m
  BY <1>1, <1>2, OneCheck
<1>4. Fair(check[c]) /\ check[c].entry \in Entries
  BY DEF HookInv, HookTypeOK
<1>5. Fair(check[c])'
  <2>1. EntryIsSaved(check[c])'
    BY <1>1, <1>3, <1>4 DEF Fair, EntryIsSaved, ScanKept
  <2>2. DenialIsNotSpared(check[c])' /\ CleanWasEarned(check[c])'
    BY <1>1, <1>3 DEF DenialIsNotSpared, CleanWasEarned
  <2>3. check'[c].spared => check'[c].target \in waived'
    BY <1>1, <1>3, <1>4 DEF Fair
  <2>4. QED BY <2>1, <2>2, <2>3 DEF Fair
<1>6. QED BY <1>1, <1>2, <1>3, <1>5, OneCheck

LEMMA ReadCacheStep ==
  ASSUME HookInv, ScanKept, NEW c \in Checks, NEW t \in Targets, ReadCache(c, t)
  PROVE  check' \in [Checks -> CheckRecords] /\ \A d \in Checks : Fair(check[d])'
<1> DEFINE m == [Quiet EXCEPT !.step = IF cache[t] = NoEntry THEN "missed" ELSE "cached",
                              !.target = t, !.entry = cache[t], !.spared = t \in waived]
<1>1. check' = [check EXCEPT ![c] = m] /\ UNCHANGED <<vars, waived>>
  BY DEF ReadCache
<1>2. cache[t] \in Entries /\ (t \in waived) \in BOOLEAN
  BY DEF HookInv, IInv, TypeOK
<1>3. /\ m \in CheckRecords /\ m.step \notin {"answered", "denied"} /\ m.entry = cache[t]
      /\ m.target = t /\ m.spared = (t \in waived)
  BY <1>2, QuietType DEF CheckRecords, CheckSteps
<1> HIDE DEF m
<1>4. check' \in [Checks -> CheckRecords] /\ check'[c] = m
  BY <1>1, <1>3, OneCheck
<1>5. UNCHANGED <<saved, outcome, waived>>
  BY <1>1 DEF vars, worker
<1>6. Fair(check[c])'
  <2>1. EntryIsSaved(check[c])'
    BY <1>3, <1>4, <1>5 DEF EntryIsSaved, HookInv, IInv, CacheBacked, CachedIsSaved
  <2>2. DenialIsNotSpared(check[c])' /\ CleanWasEarned(check[c])'
    BY <1>3, <1>4 DEF DenialIsNotSpared, CleanWasEarned
  <2>3. check'[c].spared => check'[c].target \in waived'
    BY <1>3, <1>4, <1>5
  <2>4. QED BY <2>1, <2>2, <2>3 DEF Fair
<1>7. QED BY <1>1, <1>3, <1>4, <1>6, OneCheck

LEMMA ReadFindingsStep ==
  ASSUME HookInv, ScanKept, NEW c \in Checks, ReadFindings(c)
  PROVE  check' \in [Checks -> CheckRecords] /\ \A d \in Checks : Fair(check[d])'
<1> DEFINE e == check[c].entry
           a == Decision(e)
           k == IF e.scan = NoScan THEN "gone" ELSE Known(e.scan)
           st == IF a \in Denials THEN "denied" ELSE "answered"
           m == [check[c] EXCEPT !.step = st, !.answer = a, !.known = k]
<1>1. check' = [check EXCEPT ![c] = m] /\ UNCHANGED <<vars, waived>>
  BY DEF ReadFindings, Answered
<1>2. /\ check[c] \in CheckRecords /\ e \in Entries /\ Fair(check[c])
      /\ e.scan \in Scans \cup {NoScan}
  BY DEF HookInv, HookTypeOK, CheckRecords, CheckSteps, Entries, NoEntry
<1>3. a \in Answers /\ k \in {"none", "there", "dismissed", "gone"} /\ st \in CheckSteps
  BY DecisionType DEF Known, CheckSteps
<1>4. a = "allow_clean" => ~Blocks(e) /\ ~Unverified(e)
  BY DecisionType
<1>5. /\ m \in CheckRecords /\ m.step = st /\ m.answer = a /\ m.known = k
      /\ m.entry = e /\ m.target = check[c].target /\ m.spared = check[c].spared
  <2> HIDE DEF a, k, st
  <2>1. QED BY <1>2, <1>3 DEF CheckRecords
<1>6. (st = "answered" => a \notin Denials) /\ (st = "denied" => a \in Denials)
  OBVIOUS
<1>7. UNCHANGED <<saved, outcome, lost, waived>>
  BY <1>1 DEF vars, worker, faults
<1> HIDE DEF m
<1>8. check' \in [Checks -> CheckRecords] /\ check'[c] = m
  BY <1>1, <1>5, <1>7, OneCheck
<1>9. ASSUME lost = 0, a = "allow_clean", k # "gone"
      PROVE  /\ e.scan \in Scans
             /\ \/ outcome[e.scan] = "clean"
                \/ k = "dismissed" /\ VerdictOf(outcome[e.scan]) = "completed"
  <2>1. e.scan \in Scans /\ Exists(e.scan)
    BY <1>2, <1>9 DEF Known
  <2>2. /\ outcome[e.scan] \in Outcomes
        /\ e.status = VerdictOf(outcome[e.scan])
    BY <1>2, <2>1 DEF Fair, EntryIsSaved, HookInv, IInv, TypeOK
  <2>3. (~stored[e.scan] \/ e.scan \in dismissed) /\ e.status # "incomplete"
    BY <1>4, <1>9, <2>1, ScanLifecycleAssumption DEF Blocks, Unverified
  <2>4. VerdictOf(outcome[e.scan]) = "completed" /\ outcome[e.scan] \in {"clean", "serious"}
    BY <2>2, <2>3 DEF VerdictOf, Outcomes
  <2>5. CASE outcome[e.scan] = "serious"
    <3>1. stored[e.scan]
      BY <1>9, <2>1, <2>5 DEF HookInv, SevereIsStored, Serious
    <3>2. k = "dismissed"
      BY <2>1, <2>3, <3>1, ScanLifecycleAssumption DEF Known
    <3>3. QED BY <2>1, <2>4, <3>2
  <2>6. QED BY <2>1, <2>4, <2>5
<1>10. Fair(check[c])'
  <2> HIDE DEF e, a, k, st
  <2>1. EntryIsSaved(check[c])'
    BY <1>2, <1>5, <1>7, <1>8 DEF Fair, EntryIsSaved, e
  <2>2. DenialIsNotSpared(check[c])'
    BY <1>5, <1>6, <1>8 DEF DenialIsNotSpared
  <2>3. lost' = 0 => CleanWasEarned(check[c])'
    BY <1>5, <1>7, <1>8, <1>9 DEF CleanWasEarned
  <2>4. check'[c].spared => check'[c].target \in waived'
    BY <1>2, <1>5, <1>7, <1>8 DEF Fair
  <2>5. QED BY <2>1, <2>2, <2>3, <2>4 DEF Fair
<1>11. QED BY <1>1, <1>5, <1>7, <1>8, <1>10, OneCheck

LEMMA ReadOverridesStep ==
  ASSUME HookInv, ScanKept, NEW c \in Checks, ReadOverrides(c)
  PROVE  check' \in [Checks -> CheckRecords] /\ \A d \in Checks : Fair(check[d])'
<1> DEFINE a == IF check[c].target \in waived THEN "allow_override" ELSE check[c].answer
           m == Answered(c, a)
<1>1. check' = [check EXCEPT ![c] = m] /\ UNCHANGED <<vars, waived>> /\ Answer(c, a)
  BY DEF ReadOverrides, Answer
<1>2. CASE check[c].target \in waived
  <2>1. a = "allow_override" /\ a \in Answers \ (Denials \cup {"allow_clean"})
    BY <1>2 DEF Answers, Denials
  <2> HIDE DEF a, m
  <2>2. QED BY <1>1, <2>1, PlainAnswer
<1>3. CASE check[c].target \notin waived
  <2>1. Fair(check[c]) /\ check[c].step = "denied" /\ check[c].spared \in BOOLEAN
    BY DEF HookInv, HookTypeOK, ReadOverrides, At
  <2>2. a \in Denials /\ a \in Answers /\ ~check[c].spared
    BY <1>3, <2>1 DEF Fair, DenialIsNotSpared, Answers
  <2> HIDE DEF a
  <2>3. /\ m \in CheckRecords /\ m.answer = a /\ m.step = "answered"
        /\ m.entry = check[c].entry /\ ~m.spared
    BY <2>2, AnsweredType DEF HookInv
  <2> HIDE DEF m
  <2>4. check' \in [Checks -> CheckRecords] /\ check'[c] = m
    BY <1>1, <2>3, OneCheck
  <2>5. EntryIsSaved(check[c])'
    BY <2>1, <2>3, <2>4 DEF Fair, EntryIsSaved, ScanKept, HookInv, HookTypeOK
  <2>6. DenialIsNotSpared(check[c])' /\ CleanWasEarned(check[c])'
    BY <2>2, <2>3, <2>4 DEF DenialIsNotSpared, CleanWasEarned, Denials
  <2>7. ~check'[c].spared
    BY <2>3, <2>4
  <2>8. Fair(check[c])'
    BY <2>5, <2>6, <2>7 DEF Fair
  <2>9. QED BY <1>1, <2>3, <2>4, <2>8, OneCheck
<1>4. QED BY <1>2, <1>3

\* A credit is spent: the check goes on, or is told that none is left.
LEMMA CountStep ==
  ASSUME HookInv, ScanKept, NEW c \in Checks, Count(c)
  PROVE  check' \in [Checks -> CheckRecords] /\ \A d \in Checks : Fair(check[d])'
<1>1. CASE credits >= HookLimit
  <2>1. Answer(c, "quota_exceeded") /\ UNCHANGED waived
    BY <1>1 DEF Count, Answer
  <2>2. "quota_exceeded" \in Answers \ (Denials \cup {"allow_clean"})
    BY DEF Answers, Denials
  <2>3. QED BY <2>1, <2>2, PlainAnswer
<1>2. CASE ~(credits >= HookLimit)
  <2> DEFINE m == [check[c] EXCEPT !.step = "counted"]
  <2>1. check' = [check EXCEPT ![c] = m] /\ UNCHANGED <<vars, waived>>
    BY <1>2 DEF Count
  <2>2. Fair(check[c]) /\ check[c] \in CheckRecords
    BY DEF HookInv, HookTypeOK, CheckRecords, CheckSteps
  <2>3. /\ m \in CheckRecords /\ m.step = "counted" /\ m.entry = check[c].entry
        /\ m.target = check[c].target /\ m.spared = check[c].spared
    BY <2>2 DEF CheckRecords, CheckSteps
  <2> HIDE DEF m
  <2>4. check' \in [Checks -> CheckRecords] /\ check'[c] = m
    BY <2>1, <2>3, OneCheck
  <2>5. EntryIsSaved(check[c])'
    BY <2>2, <2>3, <2>4 DEF Fair, EntryIsSaved, ScanKept, CheckRecords
  <2>6. DenialIsNotSpared(check[c])' /\ CleanWasEarned(check[c])'
    BY <2>3, <2>4 DEF DenialIsNotSpared, CleanWasEarned
  <2>7. check'[c].spared => check'[c].target \in waived'
    BY <2>1, <2>2, <2>3, <2>4 DEF Fair
  <2>8. Fair(check[c])'
    BY <2>5, <2>6, <2>7 DEF Fair
  <2>9. QED BY <2>1, <2>3, <2>4, <2>8, OneCheck
<1>3. QED BY <1>1, <1>2

LEMMA HearStep ==
  ASSUME HookInv, ScanKept, NEW c \in Checks, Hear(c)
  PROVE  check' \in [Checks -> CheckRecords] /\ \A d \in Checks : Fair(check[d])'
<1>1. check' = [check EXCEPT ![c] = Quiet] /\ UNCHANGED waived
  BY DEF Hear
<1>2. /\ Quiet \in CheckRecords /\ Quiet.step = "idle" /\ ~Quiet.spared
      /\ Quiet.entry = [scan |-> NoScan, status |-> "none"]
  BY QuietType DEF NoEntry
<1>3. check'[c] = Quiet
  BY <1>1, <1>2, OneCheck
<1>4. Quiet.entry.scan \notin Scans
  BY <1>2, ScanLifecycleAssumption
<1>5. Fair(check[c])'
  BY <1>2, <1>3, <1>4 DEF Fair, EntryIsSaved, DenialIsNotSpared, CleanWasEarned
<1>6. QED BY <1>1, <1>2, <1>5, OneCheck

LEMMA AskStep ==
  ASSUME HookInv, ScanKept, NEW c \in Checks, Ask(c)
  PROVE  check' \in [Checks -> CheckRecords] /\ \A d \in Checks : Fair(check[d])'
<1>1. ASSUME NEW s \in Scans, NEW ok \in BOOLEAN, QueueFirstScan(c, s, ok)
      PROVE  check' \in [Checks -> CheckRecords] /\ \A d \in Checks : Fair(check[d])'
  <2> DEFINE a == IF ok THEN "allow_unscanned" ELSE "error"
  <2>1. a \in Answers \ (Denials \cup {"allow_clean"})
    BY DEF Answers, Denials
  <2>2. Answer(c, a) /\ UNCHANGED waived
    BY <1>1 DEF QueueFirstScan
  <2> HIDE DEF a
  <2>3. QED BY <2>1, <2>2, PlainAnswer
<1>2. CASE Refuse(c)
  <2>1. Answer(c, "not_permitted") /\ UNCHANGED waived
    BY <1>2 DEF Refuse
  <2>2. "not_permitted" \in Answers \ (Denials \cup {"allow_clean"})
    BY DEF Answers, Denials
  <2>3. QED BY <2>1, <2>2, PlainAnswer
<1>3. QED
  BY <1>1, <1>2, ReadCacheStep, ReadFindingsStep, ReadOverridesStep, CountStep, HearStep DEF Ask

-----------------------------------------------------------------------------
(* The person, and the invariant *)

\* An override that expires takes its promise back from the checks under way.
LEMMA ExpiryStep ==
  ASSUME HookInv, ScanKept, NEW t \in Targets, OverrideExpires(t)
  PROVE  check' \in [Checks -> CheckRecords] /\ \A d \in Checks : Fair(check[d])'
<1>1. /\ check' = [c \in Checks |-> [check[c] EXCEPT !.spared = @ /\ check[c].target # t]]
      /\ waived' = waived \ {t}
  BY DEF OverrideExpires
<1>2. check \in [Checks -> CheckRecords]
  BY DEF HookInv, HookTypeOK, CheckRecords, CheckSteps
<1>3. ASSUME NEW c \in Checks
      PROVE  /\ check'[c] \in CheckRecords
             /\ check'[c].step = check[c].step /\ check'[c].entry = check[c].entry
             /\ check'[c].answer = check[c].answer /\ check'[c].known = check[c].known
             /\ check'[c].target = check[c].target
             /\ check'[c].spared => check[c].spared /\ check[c].target # t
  <2>1. check[c] \in CheckRecords /\ (check[c].spared /\ check[c].target # t) \in BOOLEAN
    BY <1>2
  <2>2. check'[c] = [check[c] EXCEPT !.spared = check[c].spared /\ check[c].target # t]
    BY <1>1
  <2>3. QED BY <2>1, <2>2 DEF CheckRecords
<1>4. check' \in [Checks -> CheckRecords]
  BY <1>1, <1>3
<1>5. ASSUME NEW c \in Checks PROVE Fair(check[c])'
  <2>1. Fair(check[c]) /\ check[c].entry \in Entries
    BY <1>2 DEF HookInv, CheckRecords
  <2>2. EntryIsSaved(check[c])'
    BY <1>3, <2>1 DEF Fair, EntryIsSaved, ScanKept
  <2>3. DenialIsNotSpared(check[c])'
    BY <1>3, <2>1 DEF Fair, DenialIsNotSpared
  <2>4. lost' = 0 => CleanWasEarned(check[c])'
    BY <1>3, <2>1 DEF Fair, EntryIsSaved, CleanWasEarned, ScanKept
  <2>5. check'[c].spared => check'[c].target \in waived'
    <3>1. waived' = waived \ {t}
      BY <1>1
    <3>2. QED BY <1>3, <2>1, <3>1 DEF Fair
  <2>6. QED BY <2>2, <2>3, <2>4, <2>5 DEF Fair
<1>6. QED BY <1>4, <1>5

LEMMA ChecksStep ==
  ASSUME HookInv, ScanKept, [HookNext]_hookVars
  PROVE  check' \in [Checks -> CheckRecords] /\ \A d \in Checks : Fair(check[d])'
<1>1. ASSUME check' = check, waived \subseteq waived'
      PROVE  check' \in [Checks -> CheckRecords] /\ \A d \in Checks : Fair(check[d])'
  <2>1. check' \in [Checks -> CheckRecords]
    BY <1>1 DEF HookInv, HookTypeOK, CheckRecords, CheckSteps
  <2>2. ASSUME NEW d \in Checks PROVE Fair(check[d])'
    <3>1. check[d].spared => check[d].target \in waived'
      BY <1>1 DEF HookInv, Fair
    <3>2. QED BY <1>1, <3>1, FairKept
  <2>3. QED BY <2>1, <2>2
<1>2. CASE UNCHANGED hookVars \/ Service
  BY <1>1, <1>2 DEF hookVars, Service, Runs, hook
<1>3. ASSUME NEW t \in Targets, CreateOverride(t)
      PROVE  check' \in [Checks -> CheckRecords] /\ \A d \in Checks : Fair(check[d])'
  BY <1>1, <1>3 DEF CreateOverride
<1>4. ASSUME NEW s \in Scans, TriageFinding(s)
      PROVE  check' \in [Checks -> CheckRecords] /\ \A d \in Checks : Fair(check[d])'
  BY <1>1, <1>4 DEF TriageFinding
<1>5. QED BY <1>2, <1>3, <1>4, ExpiryStep, AskStep DEF HookNext, Person

\* What is counted and kept about the checks has its type.
LEMMA KeptType ==
  ASSUME HookInv, [HookNext]_hookVars
  PROVE  /\ waived' \subseteq Targets /\ dismissed' \subseteq Scans
         /\ credits' \in 0..(HookLimit + 1) /\ promised' \subseteq Scans
<1>0. /\ waived \subseteq Targets /\ dismissed \subseteq Scans
      /\ credits \in 0..(HookLimit + 1) /\ promised \subseteq Scans
  BY DEF HookInv, HookTypeOK
<1>1. CASE UNCHANGED hookVars \/ Service
  BY <1>0, <1>1 DEF hookVars, Service, Runs, hook
<1>2. CASE Person
  BY <1>0, <1>2 DEF Person, CreateOverride, OverrideExpires, TriageFinding
<1>3. ASSUME NEW c \in Checks, Count(c)
      PROVE  UNCHANGED <<waived, dismissed, promised>> /\ credits' \in 0..(HookLimit + 1)
  BY <1>0, <1>3, HookGateAssumption DEF Count
<1>4. ASSUME NEW c \in Checks, NEW s \in Scans, NEW ok \in BOOLEAN, QueueFirstScan(c, s, ok)
      PROVE  UNCHANGED <<waived, dismissed, credits>> /\ promised' \subseteq Scans
  BY <1>0, <1>4 DEF QueueFirstScan
<1>5. ASSUME NEW c \in Checks, Ask(c)
      PROVE  /\ waived' = waived /\ dismissed' = dismissed
             /\ credits' \in 0..(HookLimit + 1) /\ promised' \subseteq Scans
  BY <1>0, <1>3, <1>4, <1>5 DEF Ask, ReadCache, ReadFindings, ReadOverrides, Refuse, Hear
<1>6. QED BY <1>0, <1>1, <1>2, <1>5 DEF HookNext

LEMMA HookInvInit == HookInit => HookInv
<1> SUFFICES ASSUME HookInit PROVE HookInv
  OBVIOUS
<1>1. IInv
  BY InvInit DEF HookInit
<1>2. HookTypeOK
  <2>1. check \in [Checks -> CheckRecords]
    BY QuietType DEF HookInit
  <2>2. credits \in 0..(HookLimit + 1)
    BY HookGateAssumption DEF HookInit
  <2>3. QED BY <2>1, <2>2 DEF HookInit, HookTypeOK, CheckRecords, CheckSteps
<1>3. UnrunIsUnknown /\ SevereIsStored
  BY DEF HookInit, Init, UnrunIsUnknown, SevereIsStored, Exists
<1>4. ASSUME NEW c \in Checks PROVE Fair(check[c])
  <2>1. check[c] = Quiet
    BY DEF HookInit
  <2>2. /\ Quiet.step = "idle" /\ ~Quiet.spared
        /\ Quiet.entry = [scan |-> NoScan, status |-> "none"]
    BY QuietType DEF NoEntry
  <2>3. Quiet.entry.scan \notin Scans
    BY <2>2, ScanLifecycleAssumption
  <2>4. QED BY <2>1, <2>2, <2>3 DEF Fair, EntryIsSaved, DenialIsNotSpared, CleanWasEarned
<1>5. QED BY <1>1, <1>2, <1>3, <1>4 DEF HookInv

LEMMA HookInvStep == HookInv /\ [HookNext]_hookVars => HookInv'
<1> SUFFICES ASSUME HookInv, [HookNext]_hookVars PROVE HookInv'
  OBVIOUS
<1>1. [Next]_vars
  BY ServiceSteps
<1>2. IInv'
  BY <1>1, InvStep DEF HookInv
<1>3. ScanKept
  BY <1>1, ScanStep DEF HookInv
<1>4. UnrunIsUnknown' /\ SevereIsStored'
  BY <1>3 DEF ScanKept
<1>5. check' \in [Checks -> CheckRecords] /\ \A c \in Checks : Fair(check[c])'
  BY <1>3, ChecksStep
<1>6. HookTypeOK'
  BY <1>5, KeptType DEF HookTypeOK, CheckRecords, CheckSteps
<1>7. QED BY <1>2, <1>4, <1>5, <1>6 DEF HookInv

THEOREM HookInvariance == HookSpec => []HookInv
BY HookInvInit, HookInvStep, PTL DEF HookSpec

-----------------------------------------------------------------------------
(* What the hook is told *)

\* Nobody is denied an install that an override has allowed all the while,
\* whatever is scanned, triaged, deleted or lost meanwhile.
THEOREM SparedSafety == HookSpec => []SparedIsLetThrough
<1>1. HookInv => SparedIsLetThrough
  BY DEF HookInv, Fair, DenialIsNotSpared, SparedIsLetThrough, Denied, At
<1>2. QED BY <1>1, HookInvariance, PTL

\* As long as no database call was lost, a check that answers from three
\* separate reads answers fairly: it denies nothing that is allowed, and calls
\* clean only what a run or a person cleared.  (A lost write of the findings
\* does make a severe scan read clean.)
THEOREM AnswersSafety == HookSpec => [](lost = 0 => AnswersAreFair)
<1>1. HookInv => SparedIsLetThrough
  BY DEF HookInv, Fair, DenialIsNotSpared, SparedIsLetThrough, Denied, At
<1>2. HookInv /\ lost = 0 => CleanIsEarned
  BY DEF HookInv, Fair, CleanWasEarned, CleanIsEarned, At
<1>3. HookInv => (lost = 0 => AnswersAreFair)
  BY <1>1, <1>2 DEF AnswersAreFair
<1>4. QED BY <1>3, HookInvariance, PTL
=============================================================================
