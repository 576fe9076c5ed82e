---------------------------- MODULE PosturePages ----------------------------
(***************************************************************************)
(* The pages about the agents that computers have reported: agents and one *)
(* agent, devices, skills, MCP servers, rules and attack paths.            *)
(***************************************************************************)
EXTENDS Visit

-----------------------------------------------------------------------------
(* Snapshots *)

RiskRank == [critical |-> 0, high |-> 1, medium |-> 2, low |-> 3]

Server(key, name, scope, url, on) == [key |-> key, name |-> name, scope |-> scope, url |-> url, enabled |-> on]
Rule(effect, grants) == [effect |-> effect, grants |-> grants]

\* Three agents on two computers: one with wide access and settings that could
\* not be read, one tidy one beside it, one that reported nothing but itself.
Agents == {"a1", "a2", "a3"}   \* bound
Snapshot ==
  [ a1 |-> [device |-> "d1", risk |-> "critical", score |-> 20, complete |-> FALSE, unattended |-> TRUE,
            factors |-> {30, 50}, servers |-> {Server("k1", "files", "user", TRUE, TRUE), Server("k2", "tools", "local", FALSE, TRUE)},
            skills |-> {"deploy"}, rules |-> {Rule("allow", {"shell"}), Rule("deny", {})},
            access |-> {[what |-> "shell", level |-> "full", evidence |-> {"r1"}],
                        [what |-> "network", level |-> "unknown", evidence |-> {}]},
            credentials |-> {"aws"}],
    a2 |-> [device |-> "d1", risk |-> "low", score |-> 90, complete |-> TRUE, unattended |-> FALSE,
            factors |-> {0, 10}, servers |-> {Server("k1", "fs", "project", TRUE, FALSE)},
            skills |-> {"deploy", "review"}, rules |-> {Rule("ask", {"shell"})},
            access |-> {[what |-> "shell", level |-> "ask", evidence |-> {"r2"}]}, credentials |-> {}],
    a3 |-> [device |-> "d2", risk |-> "medium", score |-> 60, complete |-> TRUE, unattended |-> FALSE,
            factors |-> {0}, servers |-> {}, skills |-> {}, rules |-> {}, access |-> {}, credentials |-> {}] ]

\* What the server makes of the snapshots it has.
SkillsOf(agents) == UNION {{[skill |-> s, agent |-> a] : s \in Snapshot[a].skills} : a \in agents}
RulesOf(agents)  == UNION {{[rule |-> r, agent |-> a] : r \in Snapshot[a].rules} : a \in agents}

\* A path has every step in one agent's settings: commands it may run without
\* being asked, and a credential within reach.
PathsOf(agents) ==
  {a \in agents : /\ \E x \in Snapshot[a].access : x.what = "shell" /\ x.level = "full"
                  /\ Snapshot[a].credentials # {}}

\* One entry for each server, however many agents load it.
Installations(agents) == UNION {{[agent |-> a, server |-> s] : s \in Snapshot[a].servers} : a \in agents}
AssetsOf(agents) ==
  LET at(k) == {i \in Installations(agents) : i.server.key = k}
  IN {[key |-> k, at |-> at(k), scopes |-> {i.server.scope : i \in at(k)},
       url |-> \E i \in at(k) : i.server.url,
       everywhere |-> \A i \in at(k) : i.server.enabled] : k \in {i.server.key : i \in Installations(agents)}}

ASSUME ReportsAssumption ==
  \A m \in Marks, s \in SUBSET Agents : m \notin {s, SkillsOf(s), AssetsOf(s), RulesOf(s), PathsOf(s)}

-----------------------------------------------------------------------------
(* Reading the list of a page, once *)

\* Bound: only a full list meets a member who may not remove agents.
Reported == {[agents |-> a, may |-> TRUE] : a \in SUBSET Agents} \cup {[agents |-> Agents, may |-> FALSE]}
PosturePages == {"agents", "devices", "skills", "inventory", "permissions", "paths"}

\* Which list a page asks for.
ListKind ==
  [ agents |-> "listAgents", devices |-> "listAgents", skills |-> "listSkills", inventory |-> "listMcpServers",
    permissions |-> "listPermissions", paths |-> "listAttackPaths" ]

\* Mutated form of PostureInit: lists are empty at mount instead of unknown.
PostureInit_EmptyAtMount ==
  \E p \in PosturePages :
    Mounted(p, [rows |-> {}, error |-> FALSE, filter |-> None, expanded |-> None, removing |-> None, may |-> TRUE],
            Load({ListKind[p]} \cup (IF p = "agents" THEN {"membership"} ELSE {})), Reported)

PostureInit ==
  \E p \in PosturePages :
    Mounted(p, [rows |-> NoData, error |-> FALSE, filter |-> None, expanded |-> None, removing |-> None, may |-> TRUE],
            Load({ListKind[p]} \cup (IF p = "agents" THEN {"membership"} ELSE {})), Reported)

ReportServe(c) ==
  \/ c.kind = "listAgents" /\ Replies(c, srv.agents, srv)
  \/ c.kind = "listSkills" /\ Replies(c, SkillsOf(srv.agents), srv)
  \/ c.kind = "listMcpServers" /\ Replies(c, AssetsOf(srv.agents), srv)
  \/ c.kind = "listPermissions" /\ Replies(c, RulesOf(srv.agents), srv)
  \/ c.kind = "listAttackPaths" /\ Replies(c, PathsOf(srv.agents), srv)
  \/ c.kind = "membership" /\ Replies(c, srv.may, srv)
  \/ /\ c.kind = "forget"
     /\ IF srv.may /\ c.arg \in srv.agents
          THEN Replies(c, "ok", [srv EXCEPT !.agents = @ \ {c.arg}])
          ELSE Replies(c, Failed, srv)

\* A list that does not load is empty, beside the alert that says so.
ListArrives(c) ==
  /\ c.kind = ListKind[page]
  /\ Takes(c, IF Threw(c) THEN [st EXCEPT !.rows = {}, !.error = TRUE] ELSE [st EXCEPT !.rows = Answer(c)], {}, {})

PostureLoading == st.rows = NoData
SaysNone == st.rows = {} /\ ~st.error

-----------------------------------------------------------------------------
(* Agents *)

\* The button of a row that is being removed is disabled; there is one mark.
Forget(a) == a # st.removing /\ Acts([st EXCEPT !.removing = a], {}, {Ask("forget", a)})

Forgotten(c) ==
  /\ c.kind = "forget"
  /\ Takes(c, [st EXCEPT !.removing = None, !.rows = IF Threw(c) THEN @ ELSE @ \ {c.arg}], {}, {})

GrantArrives(c) ==
  /\ c.kind = "membership"
  /\ Takes(c, IF Threw(c) THEN st ELSE [st EXCEPT !.may = Answer(c)], {}, {})

AgentRow(a) ==
  [ agent |-> a, risk |-> Snapshot[a].risk, allRead |-> Snapshot[a].complete,
    servers |-> Cardinality(Snapshot[a].servers), skills |-> Cardinality(Snapshot[a].skills), button |-> st.may ]

AgentsTrue == {AgentRow(a) : a \in st.rows} = {AgentRow(a) : a \in srv.agents}

-----------------------------------------------------------------------------
(* Devices *)

\* The worst agent of a computer is the computer's risk.
DeviceRow(d, agents) ==
  LET group == {a \in agents : Snapshot[a].device = d}
      worst == CHOOSE a \in group : \A b \in group : RiskRank[Snapshot[a].risk] <= RiskRank[Snapshot[b].risk]
      least == CHOOSE s \in {Snapshot[a].score : a \in group} : \A a \in group : s <= Snapshot[a].score
  IN [device |-> d, agents |-> group, risk |-> Snapshot[worst].risk, score |-> least]

GroupByDevice(agents) == {DeviceRow(d, agents) : d \in {Snapshot[a].device : a \in agents}}

\* No agent is hidden behind a safer one.
DevicesTrue ==
  \A a \in srv.agents : \E row \in GroupByDevice(st.rows) :
    /\ a \in row.agents
    /\ row.score <= Snapshot[a].score /\ RiskRank[row.risk] <= RiskRank[Snapshot[a].risk]

-----------------------------------------------------------------------------
(* Skills, MCP servers, rules and attack paths *)

\* A filter is a computer to search for, a scope or an effect.
Matches(row) ==
  \/ st.filter = None
  \/ CASE page = "skills" -> Snapshot[row.agent].device = st.filter
       [] page = "permissions" -> row.rule.effect = st.filter
       [] page = "inventory" -> st.filter \in row.scopes
VisibleRows(rows) == {row \in rows : Matches(row)}

Filters == [skills |-> {"d1", "d2"}, inventory |-> {"user", "project", "managed"}, permissions |-> {"allow", "deny"}]

\* What is offered for a server: a scan if it has an address.
AssetRow(x) ==
  [ server |-> x.key, scopes |-> x.scopes, offsSomewhere |-> ~x.everywhere,
    devices |-> Cardinality({Snapshot[i.agent].device : i \in x.at}),
    agents |-> Cardinality({i.agent : i \in x.at}),
    scan |-> IF x.url THEN "scan" ELSE "local command",
    listed |-> IF st.expanded = x.key THEN x.at ELSE {} ]

\* The sentence of a rule, from the access it grants.
RuleSays(rule) == IF rule.grants = {} THEN "changes nothing" ELSE IF rule.effect = "deny" THEN "limits" ELSE rule.effect

RuleRow(x) == [effect |-> x.rule.effect, says |-> RuleSays(x.rule), agent |-> x.agent]

NoMatch == st.rows \notin {NoData, {}} /\ VisibleRows(st.rows) = {}

ListsTrue ==
  /\ page = "skills" => \A a \in srv.agents : \A s \in Snapshot[a].skills :
                          st.filter \in {None, Snapshot[a].device} => [skill |-> s, agent |-> a] \in VisibleRows(st.rows)
  /\ page = "inventory" => \A a \in srv.agents : \A s \in Snapshot[a].servers :
       st.filter \in {None, s.scope} =>
         \E x \in VisibleRows(st.rows) :
           /\ [agent |-> a, server |-> s] \in x.at
           /\ s.enabled \/ AssetRow(x).offsSomewhere
           /\ st.expanded = s.key => [agent |-> a, server |-> s] \in AssetRow(x).listed
  /\ page = "permissions" => \A a \in srv.agents : \A r \in Snapshot[a].rules :
       st.filter \in {None, r.effect} => RuleRow([rule |-> r, agent |-> a]) \in {RuleRow(x) : x \in VisibleRows(st.rows)}
  /\ page = "paths" => st.rows = PathsOf(srv.agents)
  /\ NoMatch => st.filter # None

PostureClick ==
  /\ st.rows \notin {NoData, {}}
  /\ \/ page = "agents" /\ st.may /\ \E a \in st.rows : Forget(a)
     \/ page \in DOMAIN Filters /\ \E f \in {None} \cup Filters[page] : f # st.filter /\ Acts([st EXCEPT !.filter = f], {}, {})
     \/ page = "inventory" /\ \E x \in VisibleRows(st.rows) :
          Acts([st EXCEPT !.expanded = IF @ = x.key THEN None ELSE x.key], {}, {})

PostureArrive(c) == ListArrives(c) \/ GrantArrives(c) \/ Forgotten(c)

PostureElsewhere == Elsewhere({[srv EXCEPT !.agents = s] : s \in {srv.agents \cup {"a2"}, srv.agents \ {"a1"}}})

PostureTrue ==
  /\ page = "agents" => AgentsTrue
  /\ page = "devices" => DevicesTrue
  /\ ListsTrue
  /\ SaysNone => CASE page = "skills" -> SkillsOf(srv.agents) = {}
                   [] page = "inventory" -> AssetsOf(srv.agents) = {}
                   [] page = "permissions" -> RulesOf(srv.agents) = {}
                   [] page = "paths" -> PathsOf(srv.agents) = {}
                   [] OTHER -> srv.agents = {}

-----------------------------------------------------------------------------
(* One agent *)

ASSUME SnapshotAssumption == \A m \in Marks, a \in Agents : m # Snapshot[a]

AgentTabs == {"capabilities", "permissions", "mcp", "skills", "credentials"}

AgentInit ==
  \E a \in Agents, gone \in BOOLEAN :
    Mounted("agent", [id |-> a, agent |-> NoData, error |-> FALSE, tab |-> "capabilities"], {Ask("agent", a)},
            {[agents |-> IF gone THEN {} ELSE {a}]})

AgentServe(c) ==
  /\ c.kind = "agent"
  /\ Replies(c, IF c.arg \in srv.agents THEN Snapshot[c.arg] ELSE Failed, srv)

AgentArrives(c) ==
  /\ c.kind = "agent"
  /\ Takes(c, IF Threw(c) THEN [st EXCEPT !.error = TRUE] ELSE [st EXCEPT !.agent = Answer(c)], {}, {})

AgentShown == ~st.error /\ st.agent # NoData
AgentBusy  == ~st.error /\ st.agent = NoData

\* Above the tabs: the risk, what it lost points for, what to do, and the two
\* warnings that a score alone would hide.
Headline(x) ==
  [ risk |-> x.risk, score |-> x.score, reasons |-> x.factors,
    advice |-> \E f \in x.factors : f > 0,
    unattended |-> x.unattended,
    partial |-> ~x.complete ]

\* The sentence of a level: what could not be read counts as the most.
Reach == [full |-> "any", limited |-> "some", ask |-> "after asking", none |-> "cannot", unknown |-> "counted as any"]

CapabilityTab(x) ==
  {[what |-> y.what, level |-> IF y.level = "unknown" THEN "could not tell" ELSE y.level, reach |-> Reach[y.level],
    because |-> IF y.evidence = {} THEN "no rule gave this" ELSE "rules"] : y \in x.access}

RulesTab(x) == {RuleRow([rule |-> r, agent |-> st.id]) : r \in x.rules}

\* The other tabs are lists as they were reported; all say so when empty.
TabRows(x, tab) ==
  CASE tab = "capabilities" -> CapabilityTab(x)
    [] tab = "permissions" -> RulesTab(x)
    [] tab = "mcp" -> x.servers
    [] tab = "skills" -> x.skills
    [] tab = "credentials" -> x.credentials

TabCounts(x) == [t \in AgentTabs |-> Cardinality(TabRows(x, t))]
TabEmpty     == AgentShown /\ TabRows(st.agent, st.tab) = {}

AgentClick == AgentShown /\ \E t \in AgentTabs \ {st.tab} : Acts([st EXCEPT !.tab = t], {}, {})

\* Nothing that the computer reported is left out, and what could not be read
\* is not shown as absent.
AgentTrue ==
  IF st.error THEN srv.agents = {}
  ELSE LET x == Snapshot[st.id] IN
       /\ TabEmpty => TabRows(x, st.tab) = {}
       /\ ~x.complete => Headline(st.agent).partial
       /\ x.unattended => Headline(st.agent).unattended
       /\ \A y \in x.access : y.level = "unknown" => \E r \in CapabilityTab(st.agent) : r.what = y.what /\ r.level = "could not tell" /\ r.reach = "counted as any"
       /\ TabCounts(st.agent)["permissions"] <= Cardinality(x.rules)
=============================================================================
