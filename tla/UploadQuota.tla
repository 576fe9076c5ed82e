----------------------------- MODULE UploadQuota -----------------------------
(***************************************************************************)
(* CLI uploads of one account in one billing period: the client that tries *)
(* an upload up to three times under one scan id, the handler that counts  *)
(* it against the plan and writes its rows, and the usage counters on two  *)
(* Redis instances that share nothing (controllers/cli_controller.py,      *)
(* services/quota.py, integrations/redis_client.py, and the CLI's          *)
(* services/upload.py).                                                    *)
(*                                                                         *)
(* Each call of a handler to Redis or to the database is a step.  The      *)
(* client may give up waiting for an attempt that goes on running, so that *)
(* attempts of one upload overlap.  All uploads are of one target.         *)
(***************************************************************************)
EXTENDS Naturals, FiniteSets

CONSTANTS
  Uploads,      \* the scan ids clients minted
  NoUpload,     \* no hook_cache row
  Limit,        \* what the plan allows in the period
  MaxFlips,     \* bound: a Redis instance goes away or comes back
  MaxTimeouts,  \* bound: attempts the client gives up waiting for
  MaxFailures,  \* bound: handlers that end in an error, and lost answers of Redis
  MaxDeletes    \* bound: uploaded scans the user deletes

ASSUME UploadQuotaAssumption ==
  /\ IsFiniteSet(Uploads)
  /\ NoUpload \notin Uploads
  /\ Limit \in Nat
  /\ MaxFlips \in Nat /\ MaxTimeouts \in Nat
  /\ MaxFailures \in Nat /\ MaxDeletes \in Nat

Instances == {"primary", "fallback"}
Sources == Instances \cup {"history"}
Tries == 1..3
Attempts == Uploads \X Tries

VARIABLES
  count,      \* the period's counter on each instance
  reach,      \* instances that answer
  handler,    \* each attempt: where its handler is, whether it found the scan's
              \* row, and the count it drew (0: from no instance)
  tried,      \* attempts the client has made
  result,     \* what the client knows of the upload
  rows,       \* scans
  stored,     \* scans whose findings are in the findings table
  cache,      \* hook_cache.last_scan_id of the target
  drawn,      \* attempts each source let through
  uploaded,   \* scans ever inserted
  early,      \* uploads whose created_at, which the client sends, is before the
              \* period began
  deleted,    \* scans ever deleted
  overlapped, \* two handlers have run at once
  returned,   \* the primary has come back after an outage
  flips, timeouts, failures, deletes

client == <<tried, result>>
tables == <<rows, stored, cache, uploaded>>
ghosts == <<overlapped, returned>>
bounds == <<flips, timeouts, failures, deletes>>
vars == <<count, reach, handler, client, tables, early, drawn, deleted, ghosts, bounds>>

Busy == {"selecting", "counting", "checking", "writing", "findings", "caching"}
Unsent == [at |-> "unsent", existing |-> FALSE, ticket |-> 0]

TypeOK ==
  /\ count \in [Instances -> Nat]
  /\ reach \in SUBSET Instances
  /\ handler \in [Attempts -> [at : Busy \cup {"unsent", "done", "broken"},
                               existing : BOOLEAN, ticket : Nat]]
  /\ tried \in [Uploads -> {0} \cup Tries]
  /\ result \in [Uploads -> {"waiting", "ok", "refused"}]
  /\ rows \in SUBSET Uploads
  /\ stored \in SUBSET Uploads
  /\ cache \in Uploads \cup {NoUpload}
  /\ drawn \in [Sources -> SUBSET Attempts]
  /\ uploaded \in SUBSET Uploads
  /\ early \in SUBSET Uploads
  /\ deleted \in SUBSET Uploads
  /\ overlapped \in BOOLEAN
  /\ returned \in BOOLEAN
  /\ flips \in 0..MaxFlips
  /\ timeouts \in 0..MaxTimeouts
  /\ failures \in 0..MaxFailures
  /\ deletes \in 0..MaxDeletes

Init ==
  /\ count = [i \in Instances |-> 0]
  /\ reach = Instances
  /\ handler = [a \in Attempts |-> Unsent]
  /\ tried = [u \in Uploads |-> 0]
  /\ result = [u \in Uploads |-> "waiting"]
  /\ rows = {}
  /\ stored = {}
  /\ cache = NoUpload
  /\ drawn = [i \in Sources |-> {}]
  /\ uploaded = {}
  /\ early \in SUBSET Uploads
  /\ deleted = {}
  /\ overlapped = FALSE
  /\ returned = FALSE
  /\ flips = 0
  /\ timeouts = 0
  /\ failures = 0
  /\ deletes = 0

-----------------------------------------------------------------------------
(* The client *)

Running(a) == handler[a].at \in Busy

Start(a) ==
  /\ tried' = [tried EXCEPT ![a[1]] = a[2]]
  /\ handler' = [handler EXCEPT ![a].at = "selecting"]
  /\ overlapped' = (overlapped \/ \E b \in Attempts : Running(b))

\* The first attempt, or another after an attempt that ended in a 5xx.
Send(a) ==
  /\ result[a[1]] = "waiting"
  /\ tried[a[1]] = a[2] - 1
  /\ a[2] > 1 => handler[<<a[1], a[2] - 1>>].at = "broken"
  /\ Start(a)
  /\ UNCHANGED <<count, reach, result, tables, drawn, deleted, returned, bounds>>

\* Another attempt while the last one, which timed out, is still being handled.
Resend(a) ==
  /\ result[a[1]] = "waiting"
  /\ tried[a[1]] = a[2] - 1
  /\ a[2] > 1 /\ Running(<<a[1], a[2] - 1>>)
  /\ timeouts < MaxTimeouts
  /\ timeouts' = timeouts + 1
  /\ Start(a)
  /\ UNCHANGED <<count, reach, result, tables, drawn, deleted, returned, flips, failures, deletes>>

\* An answer reaches the client only for the attempt it is waiting for.
Answer(a, r) ==
  result' = IF tried[a[1]] = a[2] THEN [result EXCEPT ![a[1]] = r] ELSE result

-----------------------------------------------------------------------------
(* The handler *)

\* What a handler found and drew is forgotten once it has been used.
Goto(a, label) == handler' = [handler EXCEPT ![a] = [Unsent EXCEPT !.at = label]]

Select(a) ==
  /\ handler[a].at = "selecting"
  /\ LET existing == a[1] \in rows IN
       handler' = [handler EXCEPT ![a].at = IF existing THEN "writing" ELSE "counting",
                                  ![a].existing = existing]
  /\ UNCHANGED <<count, reach, client, tables, drawn, deleted, ghosts, bounds>>

Draw(a, source) == drawn' = [drawn EXCEPT ![source] = @ \cup {a}]

\* Mutated form of Refuse: a status the client does not know.
Refuse_Own(a) == Goto(a, "done") /\ Answer(a, "quota_exceeded")

Refuse(a) == Goto(a, "done") /\ Answer(a, "refused")

\* Mutated form of CountOnPrimary: the count before this upload is compared.
CountOnPrimary_Before(a) ==
  /\ handler[a].at = "counting" /\ "primary" \in reach
  /\ count' = [count EXCEPT !["primary"] = @ + 1]
  /\ IF count["primary"] <= Limit
     THEN Draw(a, "primary") /\ Goto(a, "writing") /\ UNCHANGED result
     ELSE Refuse(a) /\ UNCHANGED drawn
  /\ UNCHANGED <<reach, tried, tables, deleted, ghosts, bounds>>

\* INCR on the primary decides by itself.
CountOnPrimary(a) ==
  /\ handler[a].at = "counting" /\ "primary" \in reach
  /\ count' = [count EXCEPT !["primary"] = @ + 1]
  /\ IF count["primary"] + 1 <= Limit
     THEN Draw(a, "primary") /\ Goto(a, "writing") /\ UNCHANGED result
     ELSE Refuse(a) /\ UNCHANGED drawn
  /\ UNCHANGED <<reach, tried, tables, deleted, ghosts, bounds>>

\* Incrementing the counters in `done`; an instance in `lost` also counted,
\* although its call raised.
Increment(done, lost) ==
  /\ lost = {} \/ failures < MaxFailures
  /\ failures' = IF lost = {} THEN failures ELSE failures + 1
  /\ count' = [i \in Instances |-> IF i \in done \cup lost THEN count[i] + 1 ELSE count[i]]

\* The spare instance has no history: its count is compared with the durable
\* one in the next step.
CountOnFallback(a) ==
  /\ handler[a].at = "counting" /\ reach = {"fallback"}
  /\ \E lost \in SUBSET {"primary"} : Increment({"fallback"}, lost)
  /\ handler' = [handler EXCEPT ![a].at = "checking", ![a].ticket = count["fallback"] + 1]
  /\ IF count["fallback"] + 1 <= Limit THEN Draw(a, "fallback") ELSE UNCHANGED drawn
  /\ UNCHANGED <<reach, client, tables, deleted, ghosts, flips, timeouts, deletes>>

CountNowhere(a) ==
  /\ handler[a].at = "counting" /\ reach = {}
  /\ \E lost \in SUBSET Instances : Increment({}, lost)
  /\ Goto(a, "checking")
  /\ Draw(a, "history")
  /\ UNCHANGED <<reach, client, tables, deleted, ghosts, flips, timeouts, deletes>>

\* _used_from_durable_history: the rows that are dated within the period.
Visible == rows \ early

\* Mutated form of CheckHistory: the spare instance is believed.
CheckHistory_TrustsCounter(a) ==
  /\ handler[a].at = "checking"
  /\ IF handler[a].ticket <= Limit
     THEN Goto(a, "writing") /\ UNCHANGED result
     ELSE Refuse(a)
  /\ UNCHANGED <<count, reach, tried, tables, drawn, deleted, ghosts, bounds>>

\* The larger of the count drawn and the rows of the period, plus the one that
\* is being admitted.
CheckHistory(a) ==
  /\ handler[a].at = "checking"
  /\ IF handler[a].ticket <= Limit /\ Cardinality(Visible) + 1 <= Limit
     THEN Goto(a, "writing") /\ UNCHANGED result
     ELSE Refuse(a)
  /\ UNCHANGED <<count, reach, tried, tables, drawn, deleted, ghosts, bounds>>

\* Mutated form of WriteRow: a scan that is there already is not repaired.
WriteRow_NoRepair(a) ==
  /\ handler[a].at = "writing"
  /\ IF handler[a].existing
     THEN Goto(a, "done") /\ Answer(a, "ok") /\ UNCHANGED <<rows, uploaded>>
     ELSE /\ a[1] \notin rows
          /\ rows' = rows \cup {a[1]}
          /\ uploaded' = uploaded \cup {a[1]}
          /\ Goto(a, "findings")
          /\ UNCHANGED result
  /\ UNCHANGED <<count, reach, tried, stored, cache, drawn, deleted, ghosts, bounds>>

\* An insert, or an update of what the handler found: an update of a row that
\* has gone changes nothing, and an insert of one that has come is refused.
WriteRow(a) ==
  /\ handler[a].at = "writing"
  /\ IF handler[a].existing
     THEN Goto(a, "findings") /\ UNCHANGED <<rows, uploaded>>
     ELSE /\ rows' = rows \cup {a[1]}
          /\ uploaded' = uploaded \cup {a[1]}
          /\ Goto(a, IF a[1] \in rows THEN "broken" ELSE "findings")
  /\ UNCHANGED <<count, reach, client, stored, cache, drawn, deleted, ghosts, bounds>>

\* Mutated form of WriteFindings: a refused write is logged and ignored.
WriteFindings_BestEffort(a) ==
  /\ handler[a].at = "findings"
  /\ \E ok \in BOOLEAN : stored' = IF ok THEN stored \cup ({a[1]} \cap rows) ELSE stored
  /\ Goto(a, "caching")
  /\ UNCHANGED <<count, reach, client, rows, cache, uploaded, drawn, deleted, ghosts, bounds>>

\* Stage rows and findings are upserted; their scan must exist.
WriteFindings(a) ==
  /\ handler[a].at = "findings"
  /\ stored' = stored \cup ({a[1]} \cap rows)
  /\ Goto(a, IF a[1] \in rows THEN "caching" ELSE "broken")
  /\ UNCHANGED <<count, reach, client, rows, cache, uploaded, drawn, deleted, ghosts, bounds>>

WriteCache(a) ==
  /\ handler[a].at = "caching"
  /\ IF a[1] \in rows
     THEN cache' = a[1] /\ Goto(a, "done") /\ Answer(a, "ok")
     ELSE Goto(a, "broken") /\ UNCHANGED <<cache, result>>
  /\ UNCHANGED <<count, reach, tried, rows, stored, uploaded, drawn, deleted, ghosts, bounds>>

\* A call raised, or the process was replaced: a 5xx, or no answer at all.
Fail(a) ==
  /\ Running(a)
  /\ failures < MaxFailures
  /\ failures' = failures + 1
  /\ Goto(a, "broken")
  /\ UNCHANGED <<count, reach, client, tables, drawn, deleted, ghosts, flips, timeouts, deletes>>

Handle(a) ==
  \/ Select(a)
  \/ CountOnPrimary(a) \/ CountOnFallback(a) \/ CountNowhere(a) \/ CheckHistory(a)
  \/ WriteRow(a) \/ WriteFindings(a) \/ WriteCache(a)

-----------------------------------------------------------------------------
(* Redis and the user *)

Flip(i) ==
  /\ flips < MaxFlips
  /\ flips' = flips + 1
  /\ reach' = IF i \in reach THEN reach \ {i} ELSE reach \cup {i}
  /\ returned' = (returned \/ (i = "primary" /\ i \notin reach))
  /\ UNCHANGED <<count, handler, client, tables, drawn, deleted, overlapped, timeouts, failures, deletes>>

\* delete_scan.  Its two calls are apart in ScanLifecycle, where their order
\* matters; here the scan only has to leave the durable history.
Delete(u) ==
  /\ u \in rows
  /\ deletes < MaxDeletes
  /\ deletes' = deletes + 1
  /\ deleted' = deleted \cup {u}
  /\ rows' = rows \ {u}
  /\ stored' = stored \ {u}
  /\ cache' = IF cache = u THEN NoUpload ELSE cache
  /\ UNCHANGED <<count, reach, handler, client, uploaded, drawn, ghosts, flips, timeouts, failures>>

Next ==
  /\ \/ \E a \in Attempts : Send(a) \/ Resend(a) \/ Handle(a) \/ Fail(a)
     \/ \E i \in Instances : Flip(i)
     \/ \E u \in Uploads : Delete(u)
  /\ UNCHANGED early

Spec == Init /\ [][Next]_vars

-----------------------------------------------------------------------------
(* Properties *)

\* Each Redis instance hands out the plan's allowance at most once, whatever
\* attempts overlap, die or are repeated; what goes beyond was admitted from
\* the durable history while neither instance answered.
Allowances == Cardinality({i \in Instances : drawn[i] # {}})
UploadsWithinAllowances ==
  Cardinality(uploaded) <= Allowances * Limit + Cardinality(drawn["history"])

\* As long as uploads come one at a time, the primary does not return within
\* the period and the history is not deleted, an outage at any moment admits
\* nothing beyond the plan of the uploads dated within the period: the durable
\* count makes up for the empty counter.  It cannot see an upload that was
\* counted in this period and whose scan the client began before it, so each of
\* those may let one more in.
FailoverKeepsThePlan ==
  ~overlapped /\ ~returned /\ deleted = {} => Cardinality(uploaded \ early) <= Limit

\* An upload the client was told is stored has its row and all its findings,
\* however many of its attempts stopped half way before.
AnsweredIsComplete ==
  \A u \in Uploads \ deleted : result[u] = "ok" => u \in rows /\ u \in stored

\* The hook never sees a verdict of an upload before its findings.
CachedHasFindings ==
  cache \in Uploads \ deleted => cache \in stored

-----------------------------------------------------------------------------
(* What makes the invariants inductive *)

Drawn(a) == \E i \in Sources : a \in drawn[i]

\* An instance lets through no more attempts than it counted, and no more than
\* the plan allows.
Tickets ==
  \A i \in Instances :
    Cardinality(drawn[i]) <= count[i] /\ Cardinality(drawn[i]) <= Limit

\* Whoever inserts a row was let through by a source.
Admitted ==
  /\ \A a \in Attempts :
       /\ handler[a].at = "checking" /\ handler[a].ticket <= Limit => Drawn(a)
       /\ handler[a].at = "writing" /\ ~handler[a].existing => Drawn(a)
  /\ \A u \in uploaded : \E n \in Tries : Drawn(<<u, n>>)

\* A handler that has written the findings left them there, unless the scan was
\* deleted.
Kept ==
  \A a \in Attempts :
    handler[a].at = "caching" /\ a[1] \notin deleted => a[1] \in rows /\ a[1] \in stored

IInv ==
  /\ TypeOK
  /\ Tickets
  /\ Admitted
  /\ Kept
  /\ AnsweredIsComplete
  /\ CachedHasFindings
=============================================================================
