----------------------------- MODULE FindingPage ----------------------------
(***************************************************************************)
(* The page of one finding (views/finding-detail) with its triage buttons, *)
(* and the AI explanation panel that it and the scan page carry            *)
(* (features/ai-explain).                                                  *)
(***************************************************************************)
EXTENDS ScanServer

VARIABLES
  opened,     \* the scan whose finding is open, NoScan when none is
  card,       \* the `finding` state: its triage status; "null", or "error"
  triaging,   \* the triage request: what was asked, and how far it is
  panel,      \* the explanation on the page
  explaining  \* the explanation request

finding == <<opened, card, triaging, panel, explaining>>

NoTriage == [step |-> "no", to |-> "open"]
Panels == {"button", "reason", "summary", "detail"}

FindingTypeOK ==
  /\ opened \in Scans \cup {NoScan}
  /\ card \in Triages \cup {"null", "error"}
  /\ triaging \in [step : {"no", "asked", "done", "refused"}, to : Triages]
  /\ panel \in Panels
  /\ explaining \in {"no", "brief", "detailed"}

FindingInit ==
  /\ opened = NoScan
  /\ card = "null"
  /\ triaging = NoTriage
  /\ panel = "button"
  /\ explaining = "no"

FindingIs(s) ==
  /\ opened' = s
  /\ card' = "null"
  /\ triaging' = NoTriage
  /\ panel' = "button"
  /\ explaining' = "no"

\* The effect: one call, whose failure leaves the page an error.
LoadFinding ==
  /\ opened # NoScan /\ card = "null"
  /\ \/ triage[opened] # "none" /\ card' = triage[opened] /\ UNCHANGED failures
     \/ triage[opened] = "none" /\ card' = "error" /\ UNCHANGED failures
     \/ Answers(FALSE) /\ card' = "error"
  /\ UNCHANGED <<opened, triaging, panel, explaining, server>>

-----------------------------------------------------------------------------
(* Triage *)

\* The buttons: fixed or not fixed, by what the page shows; false positive
\* with a reason, whatever it shows.
TriageButtons ==
  IF card \notin Triages THEN {}
  ELSE {"false_positive"} \cup (IF card = "open" THEN {"fixed"} ELSE {"open"})

UpdateStatus(t) ==
  /\ triaging.step = "no" /\ t \in TriageButtons
  /\ triaging' = [step |-> "asked", to |-> t]
  /\ UNCHANGED <<opened, card, panel, explaining, server, failures>>

\* triage_finding; a finding deleted with its scan is answered with 404.
ServeTriage ==
  /\ triaging.step = "asked"
  /\ IF triage[opened] = "none"
     THEN UNCHANGED server /\ triaging' = [triaging EXCEPT !.step = "refused"]
     ELSE /\ TriageRow(opened, triaging.to)
          /\ triaging' = [triaging EXCEPT !.step = "done"]
  /\ UNCHANGED <<opened, card, panel, explaining, failures>>

\* The page shows the row it was answered with, and on a failure what it showed.
TriageAnswered ==
  /\ \/ triaging.step = "done" /\ card' = triaging.to /\ UNCHANGED failures
     \/ triaging.step = "refused" /\ UNCHANGED <<card, failures>>
     \/ triaging.step \in {"asked", "done"} /\ Answers(FALSE) /\ UNCHANGED card
  /\ triaging' = NoTriage
  /\ UNCHANGED <<opened, panel, explaining, server>>

-----------------------------------------------------------------------------
(* ExplainButton *)

Available == {"summary", "detail"}

\* "Explain with AI" or "Try again", and "Explain more" under a summary.
Explain(kind) ==
  /\ card \in Triages /\ explaining = "no"
  /\ kind = IF panel \in Available THEN "detailed" ELSE "brief"
  /\ panel # "detail"
  /\ explaining' = kind
  /\ UNCHANGED <<opened, card, triaging, panel, server, failures>>

\* Mutated form of Explained: an answer without an explanation replaces the
\* panel, as it does the first time.
Explained_Replaces ==
  /\ explaining # "no"
  /\ explaining' = "no"
  /\ \/ panel' = (IF explaining = "detailed" THEN "detail" ELSE "summary")
     \/ panel' = "reason"
  /\ UNCHANGED <<opened, card, triaging, server, failures>>

\* An explanation, or a reason why there is none: no provider, a limit, a
\* failure.  A reason never takes the place of an explanation.
Explained ==
  /\ explaining # "no"
  /\ explaining' = "no"
  /\ \/ panel' = (IF explaining = "detailed" THEN "detail" ELSE "summary")
     \/ panel' = (IF explaining = "detailed" /\ panel \in Available THEN panel ELSE "reason")
  /\ UNCHANGED <<opened, card, triaging, server, failures>>

FindingStep ==
  \/ LoadFinding \/ ServeTriage \/ TriageAnswered \/ Explained
  \/ \E t \in Triages : UpdateStatus(t)
  \/ \E kind \in {"brief", "detailed"} : Explain(kind)
=============================================================================
