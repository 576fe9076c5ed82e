-------------------------- MODULE AccountAdminPages --------------------------
(***************************************************************************)
(* The administration of accounts: the gate with its second factor, the    *)
(* list of accounts, one account, the audit log and the analytics.         *)
(***************************************************************************)
EXTENDS Visit

-----------------------------------------------------------------------------
(* The gate *)

\* A code is right for one setup key, and is accepted once.
Codes == {"first", "second"}   \* bound

GateInit ==
  Mounted("gate", [status |-> "loading", secret |-> None, busy |-> FALSE, error |-> FALSE], Load({"session"}),
          {[admin |-> a, enrolled |-> e, fresh |-> FALSE, secret |-> 0, used |-> {}] : a \in BOOLEAN, e \in BOOLEAN})

GateFor(s) ==
  IF ~s.admin THEN "denied" ELSE IF ~s.enrolled THEN "enrol" ELSE IF ~s.fresh THEN "verify" ELSE "ready"

ASSUME GateAssumption == \A m \in Marks : m \notin {"denied", "enrol", "verify", "ready"}

\* Entering a state mounts its form; the enrolment form asks for a key at once.
Enter(c, status) ==
  IF status = st.status THEN Takes(c, st, {}, {})
  ELSE Takes(c, [status |-> status, secret |-> None, busy |-> FALSE, error |-> FALSE],
             Asking({"enrolTotp", "verifyTotp"}), IF status = "enrol" THEN Load({"enrolTotp"}) ELSE {})

\* A refresh that fails denies, like one that is refused.
SessionArrives(c) ==
  /\ c.kind = "session"
  /\ Enter(c, IF Threw(c) THEN "denied" ELSE Answer(c))

KeyArrives(c) ==
  /\ c.kind = "enrolTotp"
  /\ Takes(c, IF Threw(c) THEN [st EXCEPT !.error = TRUE] ELSE [st EXCEPT !.secret = Answer(c)], {}, {})

\* The form stays busy until the refresh that follows has replaced it.
CodeChecked(c) ==
  /\ c.kind = "verifyTotp"
  /\ IF Threw(c) THEN Takes(c, [st EXCEPT !.error = TRUE, !.busy = FALSE], {}, {})
     ELSE Takes(c, st, {}, Load({"session"}))

SubmitCode(code) ==
  Acts([st EXCEPT !.busy = TRUE, !.error = FALSE], {}, {Ask("verifyTotp", [code |-> code, secret |-> st.secret])})

\* The button is disabled while a code is checked; the Enter key is not.
\* Bound: the refresh of every minute counts as something the reader does.
GateClick ==
  \/ st.status = "enrol" /\ st.secret # None /\ ~st.busy /\ \E code \in Codes : SubmitCode(code)
  \/ st.status = "verify" /\ \E code \in Codes : SubmitCode(code)
  \/ st.status = "ready" /\ Acts(st, {}, Load({"session"}))

GateServe(c) ==
  \/ c.kind = "session" /\ Replies(c, GateFor(srv), srv)
  \/ /\ c.kind = "enrolTotp"
     /\ IF ~srv.admin \/ srv.enrolled THEN Replies(c, Failed, srv)
        ELSE Replies(c, srv.secret + 1, [srv EXCEPT !.secret = @ + 1])
  \/ /\ c.kind = "verifyTotp"
     /\ IF srv.admin /\ c.arg.code \notin srv.used /\ c.arg.secret \in {None, srv.secret}
          THEN Replies(c, "ok", [srv EXCEPT !.enrolled = TRUE, !.fresh = TRUE, !.used = @ \cup {c.arg.code}])
          ELSE Replies(c, Failed, srv)

GateArrive(c) == SessionArrives(c) \/ KeyArrives(c) \/ CodeChecked(c)

\* Half an hour without anything; the allowlist is edited; another tab sets up
\* a key of its own.
GateElsewhere ==
  \/ Settled /\ srv.fresh /\ Elsewhere({[srv EXCEPT !.fresh = FALSE]})
  \/ srv.admin /\ Elsewhere({[srv EXCEPT !.admin = FALSE]})
  \/ srv.admin /\ ~srv.enrolled /\ Elsewhere({[srv EXCEPT !.secret = @ + 1]})

GateBusy == st.status = "loading" \/ (st.status \in {"enrol", "verify"} /\ st.busy)

\* Inside is who the server would let in, and nobody is left outside by the
\* order in which codes and sessions were answered.
GateTrue == st.status = GateFor(srv)

-----------------------------------------------------------------------------
(* Accounts, audit log and analytics: a filter, a debounce, and the answer *)
(* to the last query that was sent.                                        *)

FilterPages == {"users", "audit", "analytics"}
\* A filter is a status, an action to look for, or a range of days.
FilterOf == [users |-> {None, "active", "blocked"}, audit |-> {None, "account"}, analytics |-> {"7", "30"}]

Accounts ==
  { [id |-> "u1", status |-> "active", tier |-> "pro", effective |-> "free", used |-> [cli |-> 100, hook |-> 10]],
    [id |-> "u2", status |-> "blocked", tier |-> "team", effective |-> "team", used |-> [cli |-> 0, hook |-> 85]],
    [id |-> "u3", status |-> "active", tier |-> "free", effective |-> "free", used |-> [cli |-> 5, hook |-> 5]] }
AuditLog == {[action |-> "account", target |-> "u1"], [action |-> "registry", target |-> "i1"]}
Attempts == {[who |-> "u1", succeeded |-> TRUE], [who |-> "u9", succeeded |-> FALSE]}

\* What these pages are told.
Charts == {[days |-> d] : d \in FilterOf.analytics}
Tables == [rows : SUBSET (Accounts \cup AuditLog \cup Charts), pages : {1, 2}]
ASSUME FilterAssumption == \A m \in Marks : m \notin Tables /\ m \notin {Accounts, Attempts}

FilterInit ==
  \E p \in FilterPages :
    Mounted(p, [filter |-> IF p = "analytics" THEN "30" ELSE None, nr |-> 1, due |-> TRUE, got |-> NoData, more |-> NoData,
                error |-> FALSE], {}, {[accounts |-> Accounts, log |-> AuditLog, attempts |-> Attempts], [accounts |-> {}, log |-> {}, attempts |-> {}]})

\* Bound: accounts come in pages of two.
FilterQuery == [filter |-> st.filter, nr |-> IF page = "users" THEN st.nr ELSE 1]
Along       == IF page = "users" THEN {} ELSE {Ask("along", None)}

FilterFires == st.due /\ Fires([st EXCEPT !.due = FALSE], {}, {Ask("rows", FilterQuery)} \cup Along)

\* First, previous, next and last.
Turns(nr, pages) == (IF nr > 1 THEN {1, nr - 1} ELSE {}) \cup (IF nr < pages THEN {nr + 1, pages} ELSE {})

FilterClick ==
  /\ page = "analytics" => ~st.error /\ st.got # NoData
  /\ \/ \E f \in FilterOf[page] \ {st.filter} : Acts([st EXCEPT !.filter = f, !.nr = 1, !.due = TRUE], {}, {})
     \/ /\ page = "users" /\ st.got # NoData
        /\ \E n \in Turns(st.nr, st.got.pages) : Acts([st EXCEPT !.nr = n, !.due = TRUE], {}, {})

Found(records, q) ==
  CASE page = "users" ->
         LET them == {a \in records.accounts : q.filter \in {None, a.status}}
         IN  [rows |-> IF Cardinality(them) <= 2 /\ q.nr > 1 THEN {} ELSE them, pages |-> IF Cardinality(them) > 2 THEN 2 ELSE 1]
    [] page = "audit" -> [rows |-> {e \in records.log : q.filter \in {None, e.action}}, pages |-> 1]
    [] page = "analytics" -> [rows |-> {[days |-> q.filter]}, pages |-> 1]

FilterServe(c) ==
  \/ c.kind = "rows" /\ Replies(c, Found(srv, c.arg), srv)
  \/ c.kind = "along" /\ Replies(c, IF page = "audit" THEN srv.attempts ELSE srv.accounts, srv)

\* What is shown of the accounts stays when a request fails; Promise.all of two
\* fails with the first of them.
RowsArrive(c) ==
  \/ /\ page = "users" /\ c.kind = "rows"
     /\ Takes(c, IF Threw(c) THEN [st EXCEPT !.error = TRUE] ELSE [st EXCEPT !.got = Answer(c), !.error = FALSE], {}, {})
  \/ /\ page # "users"
     /\ \E d \in Requests : d.id = c.id /\ d # c /\
          \/ Threw(c) /\ Takes(c, [st EXCEPT !.error = TRUE], {d}, {})
          \/ /\ c.kind = "rows" /\ Answered(c) /\ Answered(d)
             /\ Takes(c, [st EXCEPT !.got = Answer(c), !.more = Answer(d), !.error = FALSE], {d}, {})

FilterThere == st.got # NoData
FilterBusy  == ~FilterThere /\ ~st.error
FilterEmpty == FilterThere /\ st.got.rows = {} /\ page # "analytics"

\* A row shows the plan that is enforced, and the stored one where it differs.
AccountRow(a) == [id |-> a.id, plan |-> a.effective, stored |-> IF a.tier # a.effective THEN a.tier ELSE None, status |-> a.status]
FailedRecently == {a \in st.more : ~a.succeeded}

\* The account nearest to a limit first; who is at one or near one is counted.
Nearest(a) == IF a.used["cli"] > a.used["hook"] THEN a.used["cli"] ELSE a.used["hook"]
NearLimit  == {a \in st.more : Nearest(a) >= 80}
AtLimit    == {a \in st.more : Nearest(a) >= 100}

\* The last filter is the one that is shown, and drift and failures show.
FilterTrue ==
  ~st.due =>
    /\ st.got = Found(srv, FilterQuery) /\ ~st.error
    /\ page = "users" => \A a \in st.got.rows : AccountRow(a).plan = a.tier \/ AccountRow(a).stored = a.tier
    /\ page = "audit" => FailedRecently = {a \in srv.attempts : ~a.succeeded}
    /\ page = "analytics" => AtLimit \subseteq NearLimit /\ \A a \in srv.accounts \ NearLimit : \A b \in DOMAIN a.used : a.used[b] < 80

-----------------------------------------------------------------------------
(* One account *)

Cards == {"plan", "seats", "limits", "danger"}
TeamMinSeats == 3   \* TEAM_MIN_SEATS

\* An account as the server knows it.
AccountStates ==
  [tier : {"free", "team"}, seats : Nat, status : {"active", "disabled", "blocked"}, override : {None, "unlimited"},
   used : {0, 5}, there : BOOLEAN, mailed : BOOLEAN]
ASSUME AccountsAssumption == \A m \in Marks : m \notin AccountStates

UserInit ==
  \E t \in {"free", "team"} :
    Mounted("user",
            [at |-> "here", detail |-> NoData, error |-> FALSE, seats |-> 1, busy |-> [k \in Cards |-> FALSE], told |-> None],
            {Ask("detail", None)},
            [tier : {t}, seats : {IF t = "free" THEN 1 ELSE 5}, status : {"active"}, override : {None, "unlimited"},
             used : {5}, there : {TRUE}, mailed : {FALSE}])

UserOpen == st.at = "here" /\ ~st.error /\ st.detail # NoData

\* Most actions of a card mark it busy until the account has been loaded again;
\* clearing an override and resetting usage do not.  A code that is spent or
\* wrong is refused.
Asks(card, kind, what) == ~st.busy[card] /\ Acts([st EXCEPT !.busy[card] = TRUE], {}, {Ask(kind, [card |-> card, what |-> what, code |-> "right"])})
AsksWrongly(card, kind, what) == ~st.busy[card] /\ Acts([st EXCEPT !.busy[card] = TRUE], {}, {Ask(kind, [card |-> card, what |-> what, code |-> "wrong"])})
Quietly(kind) == Acts(st, {}, {Ask(kind, [card |-> None, what |-> None, code |-> "right"])})

GrantPlan == \E t \in {"free", "team"} : Asks("plan", "setPlan", t) \/ AsksWrongly("plan", "setPlan", t)
GrantSeats ==
  \/ \E n \in {1, 5} \ {st.seats} : Acts([st EXCEPT !.seats = n], {}, {})
  \/ Asks("seats", "setSeats", st.seats)
QuotaOverrides ==
  \/ Asks("limits", "setOverride", "unlimited")
  \/ st.detail.override # None /\ Quietly("clearOverride")
  \/ Quietly("resetUsage")
DangerZone ==
  \/ \E s \in IF st.detail.status = "active" THEN {"disabled", "blocked"} ELSE {"active"} : Asks("danger", "setAccountStatus", s)
  \/ Asks("danger", "sendReset", None)
  \/ Asks("danger", "deleteUser", None)

MaxCardClicks == 2   \* bound
UserClick == UserOpen /\ clicks < MaxCardClicks /\ (GrantPlan \/ GrantSeats \/ QuotaOverrides \/ DangerZone)

Sudo == {"setPlan", "setSeats", "setAccountStatus", "deleteUser"}
Asked == Sudo \cup {"setOverride", "clearOverride", "resetUsage", "sendReset"}

\* A plan of a team raises the seats to the minimum, and never lowers them.
UserServe(c) ==
  \/ c.kind = "detail" /\ Replies(c, IF srv.there THEN srv ELSE Failed, srv)
  \/ /\ c.kind \in Asked
     /\ IF ~srv.there \/ (c.kind \in Sudo /\ c.arg.code = "wrong") THEN Replies(c, Failed, srv)
        ELSE Replies(c, "ok",
               CASE c.kind = "setPlan" ->
                      [srv EXCEPT !.tier = c.arg.what,
                                  !.seats = IF c.arg.what = "team" /\ @ < TeamMinSeats THEN TeamMinSeats ELSE @]
                 [] c.kind = "setSeats" -> [srv EXCEPT !.seats = c.arg.what]
                 [] c.kind = "setAccountStatus" -> [srv EXCEPT !.status = c.arg.what]
                 [] c.kind = "setOverride" -> [srv EXCEPT !.override = c.arg.what]
                 [] c.kind = "clearOverride" -> [srv EXCEPT !.override = None]
                 [] c.kind = "resetUsage" -> [srv EXCEPT !.used = 0]
                 [] c.kind = "sendReset" -> [srv EXCEPT !.mailed = TRUE]
                 [] c.kind = "deleteUser" -> [srv EXCEPT !.there = FALSE])

Freed(card) == IF card = None THEN st.busy ELSE [st.busy EXCEPT ![card] = FALSE]

\* The cards are mounted with the first answer, and again after an error.
DetailArrives(c) ==
  /\ c.kind = "detail"
  /\ LET mounts == st.detail = NoData \/ st.error
         s == [st EXCEPT !.busy = Freed(c.arg)]
     IN  Takes(c, IF Threw(c) THEN [s EXCEPT !.error = TRUE]
                  ELSE [s EXCEPT !.detail = Answer(c), !.error = FALSE, !.seats = IF mounts THEN Answer(c).seats ELSE @], {}, {})

AccountActed(c) ==
  /\ c.kind \in Asked
  /\ IF Threw(c) THEN Takes(c, [st EXCEPT !.busy = Freed(c.arg.card), !.told = "error"], {}, {})
     ELSE IF c.kind = "deleteUser" THEN Takes(c, [st EXCEPT !.at = "/admin"], {}, {})
     ELSE Takes(c, [st EXCEPT !.told = c.kind], {}, {Ask("detail", c.arg.card)})

UserArrive(c) == DetailArrives(c) \/ AccountActed(c)

UserBusy == st.at = "here" /\ ((~st.error /\ st.detail = NoData) \/ \E k \in Cards : st.busy[k])

\* The account as it is, also when several cards were used at once; who was
\* deleted is not shown.
UserTrue ==
  IF st.at = "/admin" \/ st.error THEN ~srv.there ELSE st.detail = srv
=============================================================================
