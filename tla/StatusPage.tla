----------------------------- MODULE StatusPage -----------------------------
(***************************************************************************)
(* The public status page: what answers now, asked by the visitor's own    *)
(* browser, and what the hourly job of the server has recorded.  The job   *)
(* runs inside the API, so that an outage of the API leaves a gap and no   *)
(* failed check.                                                           *)
(***************************************************************************)
EXTENDS Visit

Days == 1..2   \* bound: the window; what is pruned is older than it

\* What one service has on record for a day: checks, and those that passed.
Nothing == [checks |-> 0, ok |-> 0]
Plus(day, passed) == [checks |-> day.checks + 1, ok |-> IF passed THEN day.ok + 1 ELSE day.ok]
Passed(day) == Plus(day, TRUE)
AuthDays == {Nothing, Plus(Nothing, FALSE), Passed(Nothing), Plus(Passed(Nothing), FALSE)}
DayTables == [Days -> [checks : Nat, ok : Nat]]

Monitored(deployed) == {"web", "api", "auth"} \cup (IF deployed THEN {"defectdojo"} ELSE {})

\* The job writes one row for each service at a time; web and the API itself
\* are up whenever it runs.
RunChecks(records) ==
  [records EXCEPT !.checks = [s \in DOMAIN @ |->
    [@[s] EXCEPT ![2] = Plus(@, s \in {"web", "api"} \cup records.up)]]]

\* Only the sign-in service has failed checks on record.
RecordsWith(deployed, auth) ==
  [s \in Monitored(deployed) |->
    [d \in Days |-> IF s = "auth" THEN auth[d] ELSE [auth[d] EXCEPT !.ok = auth[d].checks]]]

\* Bounds: at most one service is down at first, and today's check, if there
\* was one, has passed.
OnRecord(deployed) ==
  [ up     : {Monitored(deployed) \ down : down \in {{}, {"api"}, {"auth"}}},
    checks : {RecordsWith(deployed, auth) : auth \in {a \in [Days -> AuthDays] : a[2] \in {Nothing, Passed(Nothing)}}} ]

\* Page and job know of the same services.
StatusInit ==
  \E deployed \in BOOLEAN :
    Mounted("status",
            [services |-> [s \in Monitored(FALSE) |-> "checking"], checked |-> FALSE, history |-> NoData],
            Load({"history"}) \cup {Ask("probe", s) : s \in Monitored(deployed) \ {"web"}}, OnRecord(deployed))

-----------------------------------------------------------------------------
(* The answers *)

DayStatus(day) ==
  CASE day.checks = 0 -> "no_data"
    [] day.checks > 0 /\ day.ok = day.checks -> "operational"
    [] day.checks > 0 /\ day.ok = 0 -> "down"
    [] OTHER -> "degraded"

Total(days, field) == days[1][field] + days[2][field]

\* A service that was never checked is left out.
HistoryOf(checks) ==
  [ s \in {t \in DOMAIN checks : Total(checks[t], "checks") > 0} |->
      [days |-> checks[s], recorded |-> Total(checks[s], "checks")] ]

ASSUME TablesAssumption ==
  \A m \in Marks, s \in SUBSET Monitored(TRUE) : m \notin [s -> [days : DayTables, recorded : Nat]]

\* A probe that throws or waits for too long is one that was not answered.
StatusServe(c) ==
  \/ c.kind = "probe" /\ Replies(c, IF c.arg \in srv.up THEN "ok" ELSE Failed, srv)
  \/ c.kind = "history" /\ Replies(c, IF "api" \in srv.up THEN HistoryOf(srv.checks) ELSE Failed, srv)

\* The probes are shown together, when the last one is there.
ProbesArrive(c) ==
  /\ c.kind = "probe" /\ c.arg = "api"
  /\ \A p \in Asking({"probe"}) : Answer(p) # Waiting
  /\ LET down == {p.arg : p \in {q \in Asking({"probe"}) : Threw(q)}}
     IN  Takes(c, [st EXCEPT !.checked = TRUE,
                             !.services = [s \in {"web"} \cup {p.arg : p \in Asking({"probe"})} |->
                                             IF s \in down THEN "down" ELSE "operational"]],
               Asking({"probe"}), {})

\* A history that does not load is an empty one.
HistoryArrives(c) ==
  /\ c.kind = "history"
  /\ Takes(c, [st EXCEPT !.history = IF Threw(c) THEN [s \in {} |-> Nothing] ELSE Answer(c)], {}, {})

StatusArrive(c) == ProbesArrive(c) \/ HistoryArrives(c)

\* A service goes down or comes back, or the hour strikes.
StatusElsewhere ==
  \/ \E s \in Monitored(FALSE) : Elsewhere({[srv EXCEPT !.up = IF s \in @ THEN @ \ {s} ELSE @ \cup {s}]})
  \/ "api" \in srv.up /\ Elsewhere({RunChecks(srv)})

-----------------------------------------------------------------------------
(* What the page says *)

ShownDown == {s \in DOMAIN st.services : st.services[s] = "down"}
Overall   == IF ~st.checked THEN "checking" ELSE IF ShownDown # {} THEN "down" ELSE "operational"

Recorded == IF st.history = NoData THEN [s \in {} |-> Nothing] ELSE st.history
RecordOf(s, field) == IF s \in DOMAIN Recorded THEN Total(Recorded[s].days, field) ELSE 0
SumOver(field) == RecordOf("web", field) + RecordOf("api", field) + RecordOf("auth", field) + RecordOf("defectdojo", field)

\* The figures at the top, of the recorded checks alone.
Figures ==
  [ tracked |-> Cardinality(DOMAIN st.services),
    now     |-> IF st.checked THEN Cardinality(DOMAIN st.services \ ShownDown) ELSE NoData,
    uptime  |-> IF SumOver("checks") > 0 THEN <<SumOver("ok"), SumOver("checks")>> ELSE NoData ]

\* The card of a service: what was recorded, or else the time of this probe,
\* and a bar for each day.
ServiceCard(s) ==
  [ state  |-> st.services[s],
    figure |-> IF s \in DOMAIN Recorded THEN "uptime" ELSE IF st.services[s] = "operational" THEN "latency" ELSE "none",
    bars   |-> IF s \in DOMAIN Recorded THEN [d \in Days |-> DayStatus(Recorded[s].days[d])] ELSE <<>>,
    gaps   |-> IF s \in DOMAIN Recorded THEN Cardinality({d \in Days : Recorded[s].days[d].checks = 0}) ELSE 0 ]

NothingRecorded == st.history # NoData /\ SumOver("checks") = 0
StatusBusy == Overall = "checking" \/ st.history = NoData

\* All is well only if all was asked and answered; a check that failed is in a
\* bar and in the figure; a gap is neither, and never a day that passed.  A
\* history that the API could not send reads as one without checks.
StatusTrue ==
  LET failed == {s \in DOMAIN srv.checks : \E d \in Days : srv.checks[s][d].ok < srv.checks[s][d].checks}
  IN /\ Overall = "operational" <=> DOMAIN srv.checks \ {"web"} \subseteq srv.up
     /\ Figures.now + Cardinality(ShownDown) = Cardinality(DOMAIN srv.checks)
     /\ "api" \in srv.up =>
          /\ NothingRecorded <=> \A s \in DOMAIN srv.checks, d \in Days : srv.checks[s][d] = Nothing
          /\ \A s \in failed : \E d \in Days : ServiceCard(s).bars[d] \in {"degraded", "down"}
          /\ failed # {} => Figures.uptime[1] < Figures.uptime[2]
          /\ \A s \in DOMAIN Recorded, d \in Days : ServiceCard(s).bars[d] = "operational" => srv.checks[s][d].ok > 0
=============================================================================
