---------------------------- MODULE OverviewPages ----------------------------
(***************************************************************************)
(* The dashboard, which joins the scans with the findings and stages of    *)
(* each, its usage meters, and the usage page.                             *)
(***************************************************************************)
EXTENDS Visit, Sequences

Severities == {"critical", "high", "medium", "low", "info"}
SeverityRank == [critical |-> 0, high |-> 1, medium |-> 2, low |-> 3, info |-> 4]
Urgent == {"critical", "high"}

-----------------------------------------------------------------------------
(* The meters of the quota buckets *)

Buckets == {"dashboard", "cli", "hook"}
Unlimited == "unlimited"
\* How much of a bucket is used: none, little, from the upgrade threshold on, all.
Levels == {"none", "some", "near", "full", Unlimited}

Meters(usage) ==
  IF usage = NoData THEN {}
  ELSE {[bucket |-> b,
         bar    |-> usage.level[b] # Unlimited,
         note   |-> IF usage.level[b] = Unlimited THEN "no cap"
                    ELSE IF usage.level[b] = "full" THEN "limit reached" ELSE "resets"] : b \in Buckets}

OffersUpgrade(usage) ==
  usage # NoData /\ (usage.tier = "free" \/ \E b \in Buckets : usage.level[b] \in {"near", "full"})

Usages ==
  { [tier |-> "free", level |-> [dashboard |-> "some", cli |-> "none", hook |-> "none"], activity |-> {"dashboard"}],
    [tier |-> "pro", level |-> [dashboard |-> "near", cli |-> "full", hook |-> Unlimited], activity |-> {"cli", "hook"}],
    [tier |-> "team", level |-> [b \in Buckets |-> Unlimited], activity |-> {}] }
ASSUME UsagesAssumption == \A m \in Marks : m \notin Usages

-----------------------------------------------------------------------------
(* Dashboard *)

\* Scans, newest first, with their findings <<severity, triage status>> and the
\* states of their stages: every list of at most two of these.
F(id, sev, triage) == [id |-> id, sev |-> sev, triage |-> triage]
Clean   == [scan |-> [target |-> "a", status |-> "completed"], findings |-> {}, stages |-> <<"done", "done">>]
Triaged == [scan |-> [target |-> "a", status |-> "completed"],
            findings |-> {F(1, "critical", "false_positive"), F(2, "info", "open")}, stages |-> <<"done", "skipped">>]
Crowded == [scan |-> [target |-> "b", status |-> "completed"],
            findings |-> {F(i, "low", "open") : i \in 1..5} \cup {F(6, "high", "open")}, stages |-> <<"done", "done">>]
Partial == [scan |-> [target |-> "a", status |-> "incomplete"],
            findings |-> {F(1, "medium", "open")}, stages |-> <<"done", "failed">>]
Queued  == [scan |-> [target |-> "b", status |-> "queued"], findings |-> {}, stages |-> <<>>]
History == {<<>>, <<Clean>>, <<Queued, Partial>>, <<Crowded, Triaged>>, <<Partial, Crowded>>}   \* bound
ASSUME HistoryAssumption ==
  \A m \in Marks, h \in History : \A n \in DOMAIN h : m \notin {[i \in DOMAIN h |-> h[i].scan], h[n].findings, h[n].stages}

DashboardInit ==
  \E h \in History, on \in BOOLEAN, u \in Usages :
    Mounted("dashboard",
            [scans |-> NoData, summaries |-> NoData, error |-> FALSE, github |-> NoData, usage |-> NoData],
            Load({"scans", "github"}),
            {[scans |-> [n \in DOMAIN h |-> h[n].scan], findings |-> [n \in DOMAIN h |-> h[n].findings],
              stages |-> [n \in DOMAIN h |-> h[n].stages], github |-> on, usage |-> u]})

\* The findings and the stages of one scan.
DetailsServe(c) ==
  \/ c.kind = "findingsOf" /\ Replies(c, srv.findings[c.arg], srv)
  \/ c.kind = "stagesOf" /\ Replies(c, srv.stages[c.arg], srv)

\* The meters are mounted with whatever follows the skeleton.
Summarized(s, error) == [st EXCEPT !.summaries = s, !.error = error]

DetailsOf(scans) == {Ask("findingsOf", n) : n \in scans} \cup {Ask("stagesOf", n) : n \in scans}

ScansArrive(c) ==
  /\ c.kind = "scans"
  /\ IF Threw(c) THEN Takes(c, Summarized(<<>>, TRUE), {}, Load({"usage"}))
     ELSE IF Answer(c) = <<>> THEN Takes(c, Summarized(<<>>, FALSE), {}, Load({"usage"}))
     ELSE Takes(c, [st EXCEPT !.scans = Answer(c)], {},
                DetailsOf(DOMAIN Answer(c)))

Detail(kind, n, default) ==
  LET c == CHOOSE d \in Asking({kind}) : d.arg = n IN IF Threw(c) THEN default ELSE Answer(c)

\* Promise.all over the scans: one that does not load counts as empty.
DetailsArrive(c) ==
  LET batch == Asking({"findingsOf", "stagesOf"})
  IN /\ c \in batch /\ \A d \in batch : Answer(d) # Waiting
     /\ Takes(c, Summarized([n \in DOMAIN st.scans |->
                               [scan |-> st.scans[n], findings |-> Detail("findingsOf", n, {}),
                                stages |-> Detail("stagesOf", n, <<>>)]], FALSE),
              batch, Load({"usage"}))

GithubArrives(c) ==
  /\ c.kind = "github"
  /\ Takes(c, [st EXCEPT !.github = ~Threw(c) /\ Answer(c)], {}, {})

MetersArrive(c) ==
  /\ c.kind = "usage"
  /\ Takes(c, IF Threw(c) THEN st ELSE [st EXCEPT !.usage = Answer(c)], {}, {})

DashboardArrive(c) == ScansArrive(c) \/ DetailsArrive(c) \/ GithubArrives(c) \/ MetersArrive(c)

\* Findings a person still has to act on, each with its scan.
OpenFindings(findings) == {f \in findings : f.triage = "open"}
AllOpen(s) == UNION {{[scan |-> n, of |-> f] : f \in OpenFindings(s[n].findings)} : n \in DOMAIN s}
OpenOf(s, sevs) == {o \in AllOpen(s) : o.of.sev \in sevs}

Metrics(s) ==
  [ critical  |-> Cardinality(OpenOf(s, {"critical"})),
    high      |-> Cardinality(OpenOf(s, {"high"})),
    attention |-> Cardinality({n \in DOMAIN s : \/ s[n].scan.status \in {"failed", "incomplete"}
                                                \/ \E o \in OpenOf(s, Urgent) : o.scan = n}),
    latest    |-> s[1].scan,
    targets   |-> Cardinality({s[n].scan.target : n \in DOMAIN s}) ]

\* Oldest to newest.
Trend(s) ==
  LET of(n) == [sev \in Severities |-> Cardinality({o \in OpenOf(s, {sev}) : o.scan = n})]
  IN  [n \in DOMAIN s |-> of(Len(s) + 1 - n)]

\* The five worst open findings, of two alike the one of the newer scan, and in
\* one scan the one that is listed first.
Rank(o) == SeverityRank[o.of.sev]
Worse(o, p) == \/ Rank(o) < Rank(p)
               \/ Rank(o) = Rank(p) /\ o.scan < p.scan
               \/ Rank(o) = Rank(p) /\ o.scan = p.scan /\ o.of.id < p.of.id
TopFindings(s) == {o \in AllOpen(s) : Cardinality({p \in AllOpen(s) : Worse(p, o)}) < 5}

TopTargets(s) ==
  {[target |-> t, total |-> Cardinality({o \in AllOpen(s) : s[o.scan].scan.target = t}),
    tone |-> IF \E o \in OpenOf(s, {"critical"}) : s[o.scan].scan.target = t THEN "critical"
             ELSE IF \E o \in OpenOf(s, {"high"}) : s[o.scan].scan.target = t THEN "high" ELSE "default"] :
     t \in {s[o.scan].scan.target : o \in AllOpen(s)}}

\* What the donut divides: severities that a grade depends on.
Breakdown(s) == [sev \in Severities \ {"info"} |-> Cardinality(OpenOf(s, {sev}))]
NothingOpen(s) == \A sev \in Severities \ {"info"} : Breakdown(s)[sev] = 0

\* The posture card and the four figures above it.
Posture(s) == [score |-> s[1].scan, partial |-> s[1].scan.status = "incomplete", trend |-> Trend(s)]

ScanRow(x) ==
  [ status   |-> x.scan.status,
    coverage |-> <<Cardinality({i \in DOMAIN x.stages : x.stages[i] = "done"}),
                   IF x.stages = <<>> THEN 5 ELSE Len(x.stages)>>,
    broken   |-> \E i \in DOMAIN x.stages : x.stages[i] = "failed",
    urgent   |-> {f \in OpenFindings(x.findings) : f.sev \in Urgent} ]

\* The checklist of an account without scans.
SetupSteps ==
  [ github |-> IF st.github = NoData THEN "loading" ELSE IF st.github THEN "done" ELSE "connect", scan |-> "to do" ]

FirstUse      == st.summaries = <<>> /\ ~st.error
DashboardBusy == st.summaries = NoData \/ (FirstUse /\ SetupSteps.github = "loading")
DashboardEmpty == FirstUse \/ (st.summaries \notin {NoData, <<>>} /\ NothingOpen(st.summaries))

\* The page claims nothing that the records contradict: the cards that say
\* there is nothing, the list that must hold the worst, and the counts.
DashboardTrue ==
  LET s   == st.summaries
      urgent(n) == \E f \in srv.findings[n] : f.triage = "open" /\ f.sev \in Urgent
  IN IF s = <<>> THEN srv.scans = <<>> /\ (SetupSteps.github = "connect" <=> ~srv.github)
     ELSE /\ Len(s) = Len(srv.scans)
          /\ TopFindings(s) = {} \/ NothingOpen(s) => \A n \in DOMAIN srv.scans : ~urgent(n)
          /\ \A o \in AllOpen(s), p \in TopFindings(s) : o \in TopFindings(s) \/ Rank(p) <= Rank(o)
          /\ \A n \in DOMAIN s : ScanRow(s[n]).urgent = {} /\ ~ScanRow(s[n]).broken => ~urgent(n) /\ \A i \in DOMAIN srv.stages[n] : srv.stages[n][i] # "failed"
          /\ Metrics(s).attention >= Cardinality({n \in DOMAIN srv.scans : urgent(n)})
          /\ Posture(s).partial <=> srv.scans[1].status = "incomplete"
          /\ Metrics(s).critical + Metrics(s).high = 0 => \A t \in TopTargets(s) : t.tone = "default"

-----------------------------------------------------------------------------
(* Usage *)

UsageInit ==
  Mounted("usage", [usage |-> NoData, error |-> FALSE, source |-> "all"], Load({"usage"}), {[usage |-> u] : u \in Usages})

UsageBusy == st.usage = NoData /\ ~st.error

UsageClick ==
  /\ st.usage # NoData
  /\ \E s \in {"all", "dashboard", "cli", "hook"} \ {st.source} : Acts([st EXCEPT !.source = s], {}, {})

UsageArrive(c) ==
  /\ c.kind = "usage"
  /\ Takes(c, IF Threw(c) THEN [st EXCEPT !.error = TRUE] ELSE [st EXCEPT !.usage = Answer(c)], {}, {})

\* What the page says of one account: a period total, the next reset, a card
\* for each bucket, and the charged scans of the chosen surface.
Activity == IF st.source = "all" THEN st.usage.activity ELSE st.usage.activity \cap {st.source}
NoReset  == \A b \in Buckets : st.usage.level[b] = Unlimited
UsageEmpty == st.usage # NoData /\ Activity = {}

UsageTrue ==
  /\ UsageEmpty => srv.usage.activity \cap (IF st.source = "all" THEN Buckets ELSE {st.source}) = {}
  /\ NoReset => \A m \in Meters(st.usage) : ~m.bar
=============================================================================
