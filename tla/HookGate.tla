------------------------------ MODULE HookGate ------------------------------
(***************************************************************************)
(* The hook of an editor asks what is known of a target before it installs *)
(* it (controllers/hook_controller.py), over the scan service that is      *)
(* writing the answer meanwhile.  A check reads the cache, the findings    *)
(* and the overrides in three calls; when there is no cached verdict it    *)
(* spends a credit and queues a first scan, which takes two more.          *)
(***************************************************************************)
EXTENDS ScanLifecycle

CONSTANTS
  Checks,     \* bound: checks that are answered at once
  FirstScans, \* the ids that a check gives to a scan; other scans are asked for elsewhere
  HookLimit   \* hook_scans_per_month of the plan

ASSUME HookGateAssumption ==
  HookLimit \in Nat /\ FirstScans \subseteq Scans /\ Targets # {}

VARIABLES
  check,      \* the checks: how far each is, what it read, what it answers
  waived,     \* targets with an override that has not expired
  dismissed,  \* scans whose findings a person has triaged away
  credits,    \* the counter of the hook's bucket
  promised    \* ghost: the scans a check said were under way

hook == <<check, waived, dismissed, credits, promised>>
hookVars == <<vars, hook>>

Denials == {"block", "block_incomplete"}
Answers == Denials \cup {"allow_clean", "allow_override", "allow_unscanned",
                         "quota_exceeded", "not_permitted", "error"}

\* known and spared are ghosts: what was so when the findings were read, and
\* whether an override has been active since the check began.
Quiet == [step |-> "idle", target |-> CHOOSE t \in Targets : TRUE, entry |-> NoEntry,
          answer |-> "none", known |-> "none", spared |-> FALSE]

HookTypeOK ==
  /\ check \in [Checks -> [step : {"idle", "missed", "counted", "cached", "denied", "answered"},
                           target : Targets, entry : Entries, answer : Answers \cup {"none"},
                           known : {"none", "there", "dismissed", "gone"}, spared : BOOLEAN]]
  /\ waived \subseteq Targets
  /\ dismissed \subseteq Scans
  /\ credits \in 0..(HookLimit + 1)
  /\ promised \subseteq Scans

HookInit ==
  /\ Init
  /\ check = [c \in Checks |-> Quiet]
  /\ waived = {} /\ dismissed = {} /\ promised = {}
  /\ credits = 0

-----------------------------------------------------------------------------
(* A check *)

At(c, step) == check[c].step = step
Answered(c, answer) == [check[c] EXCEPT !.step = "answered", !.answer = answer]
Answer(c, answer) == check' = [check EXCEPT ![c] = Answered(c, answer)]

\* check_cache reads hook_cache.
ReadCache(c, t) ==
  /\ At(c, "idle")
  /\ check' = [check EXCEPT ![c] =
       [Quiet EXCEPT !.step = IF cache[t] = NoEntry THEN "missed" ELSE "cached",
                     !.target = t, !.entry = cache[t], !.spared = t \in waived]]
  /\ UNCHANGED <<vars, waived, dismissed, credits, promised>>

\* One of the findings is severe and open; the tools of the scan did not run.
Blocks(entry) == entry.scan # NoScan /\ stored[entry.scan] /\ entry.scan \notin dismissed
Unverified(entry) == entry.scan # NoScan /\ ~Blocks(entry) /\ entry.status = "incomplete"

Known(s) == IF ~Exists(s) THEN "gone" ELSE IF s \in dismissed THEN "dismissed" ELSE "there"

\* Mutated form of Decision: no blocking finding is taken for a clean scan.
Decision_FindingsOnly(entry) ==
  IF Blocks(entry) THEN "block" ELSE "allow_clean"

\* The findings that are there now, and the status that was cached.
Decision(entry) ==
  CASE Blocks(entry)     -> "block"
    [] Unverified(entry) -> "block_incomplete"
    [] OTHER             -> "allow_clean"

ReadFindings(c) ==
  LET entry == check[c].entry
      seen  == [Answered(c, Decision(entry)) EXCEPT
                  !.known = IF entry.scan = NoScan THEN "gone" ELSE Known(entry.scan)]
  IN
  /\ At(c, "cached")
  /\ check' = [check EXCEPT ![c] =
       IF Decision(entry) \in Denials THEN [seen EXCEPT !.step = "denied"] ELSE seen]
  /\ UNCHANGED <<vars, waived, dismissed, credits, promised>>

\* Only a denial asks for the overrides.
ReadOverrides(c) ==
  /\ At(c, "denied")
  /\ Answer(c, IF check[c].target \in waived THEN "allow_override" ELSE check[c].answer)
  /\ UNCHANGED <<vars, waived, dismissed, credits, promised>>

\* The caller's role in their workspace does not allow scans.
Refuse(c) ==
  /\ At(c, "missed")
  /\ Answer(c, "not_permitted")
  /\ UNCHANGED <<vars, waived, dismissed, credits, promised>>

\* check_and_increment_quota counts first and compares then.
Count(c) ==
  /\ At(c, "missed")
  /\ credits' = IF credits > HookLimit THEN credits ELSE credits + 1
  /\ check' = [check EXCEPT ![c] = IF credits >= HookLimit THEN Answered(c, "quota_exceeded")
                                   ELSE [@ EXCEPT !.step = "counted"]]
  /\ UNCHANGED <<vars, waived, dismissed, promised>>

\* The row and its task; an insert that fails leaves the credit spent, and the
\* hook lets the install pass.
QueueFirstScan(c, s, ok) ==
  /\ At(c, "counted") /\ s \in FirstScans /\ TargetOf[s] = check[c].target
  /\ Create(s, ok)
  /\ Answer(c, IF ok THEN "allow_unscanned" ELSE "error")
  /\ promised' = IF ok THEN promised \cup {s} ELSE promised
  /\ UNCHANGED <<waived, dismissed, credits>>

\* The answer reaches the hook, or the hook has given up waiting for it.
Hear(c) ==
  /\ At(c, "answered")
  /\ check' = [check EXCEPT ![c] = Quiet]
  /\ UNCHANGED <<vars, waived, dismissed, credits, promised>>

\* main() of the hook: all but a denial lets the install pass.
Denied(c) == At(c, "answered") /\ check[c].answer \in Denials

-----------------------------------------------------------------------------
(* The person *)

\* `aevrin hook allow`, with the key that the denial names.
CreateOverride(t) ==
  /\ t \notin waived
  /\ waived' = waived \cup {t}
  /\ UNCHANGED <<vars, check, dismissed, credits, promised>>

\* expires_at passes.
OverrideExpires(t) ==
  /\ t \in waived
  /\ waived' = waived \ {t}
  /\ check' = [c \in Checks |-> [check[c] EXCEPT !.spared = @ /\ check[c].target # t]]
  /\ UNCHANGED <<vars, dismissed, credits, promised>>

\* triage_finding of every severe finding, or the reopening of one.
TriageFinding(s) ==
  /\ stored[s]
  /\ dismissed' = IF s \in dismissed THEN dismissed \ {s} ELSE dismissed \cup {s}
  /\ UNCHANGED <<vars, check, waived, credits, promised>>

-----------------------------------------------------------------------------
Ask(c) ==
  \/ \E t \in Targets : ReadCache(c, t)
  \/ ReadFindings(c) \/ ReadOverrides(c) \/ Refuse(c) \/ Count(c)
  \/ \E s \in Scans, ok \in BOOLEAN : QueueFirstScan(c, s, ok)
  \/ Hear(c)

Person ==
  \/ \E t \in Targets : CreateOverride(t) \/ OverrideExpires(t)
  \/ \E s \in Scans : TriageFinding(s)

\* The thread of a scan.
Runs(s) == (AcquireSlot(s) \/ Worker(s)) /\ UNCHANGED hook

\* The service goes on: its scans run, others are asked for, and they are
\* deleted.  Neither STUCK_AFTER nor the process ends here.
Service ==
  \/ \E s \in Scans : Runs(s)
  \/ /\ Requests /\ UNCHANGED hook
     /\ \A s \in FirstScans : status[s] = "none" => status'[s] = "none"

HookNext == Service \/ Person \/ \E c \in Checks : Ask(c)

\* Threads make progress.  Neither the clock nor the scheduler, no person and
\* no hook has to do anything.
HookFairness == \A s \in Scans : WF_hookVars(Runs(s))

HookSpec == HookInit /\ [][HookNext]_hookVars /\ HookFairness

-----------------------------------------------------------------------------
(* Properties *)

\* The hook calls a target clean only on a run that graded it and found
\* nothing severe, or after a person dismissed what was found; a scan that is
\* deleted is the one thing that makes it forget.
CleanIsEarned ==
  \A c \in Checks : At(c, "answered") /\ check[c].answer = "allow_clean" =>
    \/ check[c].known = "gone"
    \/ LET o == outcome[check[c].entry.scan] IN
         o = "clean" \/ (check[c].known = "dismissed" /\ VerdictOf(o) = "completed")

\* Nobody is denied what an override has allowed all the while.
SparedIsLetThrough == \A c \in Checks : Denied(c) => ~check[c].spared

\* What a check answers from three reads agrees with what held while it ran,
\* though scans finish, findings are triaged, rows are deleted and overrides
\* expire between the reads.
AnswersAreFair == CleanIsEarned /\ SparedIsLetThrough

\* "A background scan has been started and will be cached for next time": a
\* scan that a check promised ends with a cached verdict for its target, or
\* shows that it failed, or was deleted.
PromiseKept ==
  \A s \in Scans :
    s \in promised /\ status[s] = "queued" ~>
      cache[TargetOf[s]] # NoEntry \/ status[s] \in {"failed", "deleted"}
=============================================================================
