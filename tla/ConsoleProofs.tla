--------------------------- MODULE ConsoleProofs ----------------------------
(***************************************************************************)
(* The theorems about the console: a page that says there is nothing has   *)
(* asked, and a calm page shows what is true.  The cores of the pages of   *)
(* the marketplace, of its administration and of the frame are here; those *)
(* of the others in ConsolePageProofs.                                     *)
(***************************************************************************)
EXTENDS ConsolePageProofs

-----------------------------------------------------------------------------
(* First answers: keys and providers *)

\* Until the first answer, the page does not say that there is nothing.
KeysFirst ==
  /\ DOMAIN st = {"keys", "creating", "secret", "revoke", "clearing"}
  /\ Once("keys")
  /\ ~overtaken => \A c \in Firsts : c.kind = "keys" => st.keys = NoData

\* Every step keeps it so.
LEMMA KeysAsks ==
  ASSUME page = "keys", VisitType, KeysFirst, [Next]_vars
  PROVE  VisitType' /\ KeysFirst'
<1>1. KeysClick \/ (\E c \in Requests : KeysArrive(c)) \/ Away
  BY DEF Next, Click, ArriveSome, Arrive, TimerSome, PosturePages, FilterPages, Away
<1>2. CASE KeysClick
  <2>1. ASSUME NEW s, NEW new, Acts(s, {}, new), DOMAIN s = DOMAIN st, s.keys = st.keys
        PROVE  VisitType' /\ KeysFirst'
    BY <2>1, ActsFirsts DEF KeysFirst
  <2>2. DOMAIN st = {"keys", "creating", "secret", "revoke", "clearing"}
    BY DEF KeysFirst
  <2>3. CASE \E new : Acts([st EXCEPT !.creating = TRUE], {}, new)
    BY <2>1, <2>2, <2>3
  <2>4. CASE \E k, new : Acts([st EXCEPT !.revoke = k], {}, new)
    BY <2>1, <2>2, <2>4
  <2>5. CASE \E new : Acts(st, {}, new)
    BY <2>1, <2>5
  <2>6. CASE \E new : Acts([st EXCEPT !.clearing = TRUE], {}, new)
    BY <2>1, <2>2, <2>6
  <2>7. QED BY <1>2, <2>3, <2>4, <2>5, <2>6 DEF KeysClick
<1>3. ASSUME NEW c \in Requests, KeysArrive(c)
      PROVE  VisitType' /\ KeysFirst'
  <2>1. ASSUME NEW s, NEW new, Takes(c, s, {}, new), DOMAIN s = DOMAIN st, c.kind = "keys" \/ s.keys = st.keys
        PROVE  VisitType' /\ KeysFirst'
    BY <2>1, TakesFirsts DEF KeysFirst
  <2>2. DOMAIN st = {"keys", "creating", "secret", "revoke", "clearing"}
    BY DEF KeysFirst
  <2>3. CASE KeysListArrives(c)
    BY <2>1, <2>2, <2>3 DEF KeysListArrives
  <2>4. CASE KeyCreated(c)
    <3>1. \A y : DOMAIN [st EXCEPT !.creating = FALSE, !.secret = y] = DOMAIN st
                 /\ [st EXCEPT !.creating = FALSE, !.secret = y].keys = st.keys
      BY <2>2
    <3>2. QED BY <2>1, <2>4, <3>1 DEF KeyCreated
  <2>5. CASE KeyRevoked(c)
    BY <2>1, <2>2, <2>5 DEF KeyRevoked
  <2>6. CASE KeysCleared(c)
    BY <2>1, <2>2, <2>6 DEF KeysCleared
  <2>7. QED BY <1>3, <2>3, <2>4, <2>5, <2>6 DEF KeysArrive
<1>4. CASE Away
  BY <1>4, AwayFacts DEF AwayKeeps, KeysFirst
<1>5. QED BY <1>1, <1>2, <1>3, <1>4

\* Until the first answer, the page does not say that there is nothing.
ProvidersFirst ==
  /\ DOMAIN st = {"creds", "models", "loading", "dialog", "opened"}
  /\ Once("providers") /\ Once("models")
  /\ ~overtaken => \A c \in Firsts : c.kind \in {"providers", "models"} /\ st.loading
                                     /\ (\E d \in Firsts : d.kind = "providers")
                                     /\ (\E d \in Firsts : d.kind = "models")

\* Every step keeps it so.
LEMMA ProvidersAsks ==
  ASSUME page = "providers", VisitType, ProvidersFirst, [Next]_vars
  PROVE  VisitType' /\ ProvidersFirst'
<1>1. ProvidersClick \/ (\E c \in Requests : ProvidersArrive(c)) \/ Away
  BY DEF Next, Click, ArriveSome, Arrive, TimerSome, PosturePages, FilterPages, Away
<1> DEFINE fields == {"creds", "models", "loading", "dialog", "opened"}
<1>2. DOMAIN st = fields
  BY DEF ProvidersFirst
<1>3. CASE ProvidersClick
  <2>1. ASSUME NEW s, NEW new, Acts(s, {}, new), DOMAIN s = DOMAIN st, ~st.loading
        PROVE  VisitType' /\ ProvidersFirst'
    BY <2>1, ActsFirsts DEF ProvidersFirst
  <2>2. \A d, e : DOMAIN [st EXCEPT !.dialog = d] = DOMAIN st /\ DOMAIN [st EXCEPT !.opened = e, !.dialog = d] = DOMAIN st
    OBVIOUS
  <2>3. CASE \E d, n, new : Acts([st EXCEPT !.opened = n, !.dialog = d], {}, new)
    BY <1>3, <2>1, <2>2, <2>3 DEF ProvidersClick
  <2>4. CASE \E d, new : Acts([st EXCEPT !.dialog = d], {}, new)
    BY <1>3, <2>1, <2>2, <2>4 DEF ProvidersClick
  <2>5. ASSUME NEW a, NEW b, NEW k, NEW new, Acts([st EXCEPT !.dialog.busy = TRUE, !.dialog.model = a, !.dialog.note = b], {}, new)
        PROVE  VisitType' /\ ProvidersFirst'
    <3>1. DOMAIN [st EXCEPT !.dialog.busy = TRUE, !.dialog.model = a, !.dialog.note = b] = DOMAIN st
      OBVIOUS
    <3>2. QED BY <1>3, <2>1, <2>5, <3>1 DEF ProvidersClick
  <2>6. ASSUME NEW a, NEW b, NEW new, Acts([st EXCEPT !.dialog.step = a, !.dialog.note = b], {}, new)
        PROVE  VisitType' /\ ProvidersFirst'
    <3>1. DOMAIN [st EXCEPT !.dialog.step = a, !.dialog.note = b] = DOMAIN st
      OBVIOUS
    <3>2. QED BY <1>3, <2>1, <2>6, <3>1 DEF ProvidersClick
  <2>7. ASSUME NEW p, OpenDialog(p)
        PROVE  VisitType' /\ ProvidersFirst'
    BY <2>3, <2>7 DEF OpenDialog
  <2>8. ASSUME NEW k, NEW m, DialogAsks(k, m)
        PROVE  VisitType' /\ ProvidersFirst'
    BY <2>5, <2>8 DEF DialogAsks
  <2>9. QED BY <1>3, <2>4, <2>6, <2>7, <2>8 DEF ProvidersClick
<1>4. ASSUME NEW c \in Requests, ProvidersArrive(c)
      PROVE  VisitType' /\ ProvidersFirst'
  <2>1. ASSUME NEW s, NEW dropped \in {{}, Reloading}, NEW new, Takes(c, s, dropped, new), DOMAIN s = DOMAIN st,
               c.kind \notin {"providers", "models"}, s.loading = st.loading
        PROVE  VisitType' /\ ProvidersFirst'
    <3>1. CASE dropped = {}
      BY <2>1, <3>1, TakesFirsts DEF ProvidersFirst
    <3>2. CASE dropped = Reloading
      <4>1. ~overtaken => \A d \in Firsts : d \in Reloading
        BY DEF ProvidersFirst, Reloading, Asking, Firsts
      <4>2. QED BY <2>1, <3>2, <4>1, TakesFirsts DEF ProvidersFirst
    <3>3. QED BY <2>1, <3>1, <3>2
  <2>2. CASE RosterArrives(c)
    <3>1. c.kind = "providers"
      BY <2>2 DEF RosterArrives
    <3>2. PICK d, a, b : d \in Asking({"models"}) /\ d.id = c.id /\ Takes(c, [st EXCEPT !.creds = a, !.models = b, !.loading = FALSE], {d}, {})
      BY <2>2 DEF RosterArrives
    <3> DEFINE s == [st EXCEPT !.creds = a, !.models = b, !.loading = FALSE]
    <3>3. DOMAIN s = DOMAIN st
      OBVIOUS
    <3>4. VisitType' /\ st' = s /\ Firsts' = (Firsts \ {c}) \ {d} /\ Once("providers")' /\ Once("models")'
          /\ (~overtaken' => ~overtaken /\ \A e \in Firsts' : e.kind # "providers")
      BY <3>1, <3>2, TakesFirsts DEF ProvidersFirst
    <3>5. d.kind = "models" /\ d \in Requests
      BY <3>2 DEF Asking
    <3>6. ASSUME ~overtaken', NEW e \in Firsts'
          PROVE  FALSE
      <4>1. e \in Firsts /\ e.kind = "models" /\ e # d /\ ~overtaken
        BY <3>4, <3>6 DEF ProvidersFirst
      <4>2. c \in Firsts
        BY <3>1, <3>4, <3>5, <3>6, <4>1 DEF ProvidersFirst
      <4>3. d \in Firsts
        BY <3>2, <3>5, <4>2 DEF Firsts
      <4>4. QED BY <3>5, <4>1, <4>3 DEF ProvidersFirst, Once
    <3>7. QED BY <3>3, <3>4, <3>6 DEF ProvidersFirst
  <2>3. ASSUME NEW s \in {st, [st EXCEPT !.dialog = NoDialog], [st EXCEPT !.dialog.busy = FALSE],
                          [st EXCEPT !.dialog.busy = FALSE, !.dialog.step = "model"],
                          [st EXCEPT !.dialog.busy = FALSE, !.dialog.note = "saved"],
                          [st EXCEPT !.dialog.busy = FALSE, !.dialog.note = "error"]}
        PROVE  DOMAIN s = DOMAIN st /\ s.loading = st.loading
    BY <1>2
  <2>4. CASE KeySaved(c)
    BY <2>1, <2>3, <2>4 DEF KeySaved
  <2>5. CASE ModelSaved(c)
    BY <2>1, <2>3, <2>5 DEF ModelSaved
  <2>6. CASE KeyRemoved(c)
    BY <2>1, <2>3, <2>6 DEF KeyRemoved
  <2>7. QED BY <1>4, <2>2, <2>4, <2>5, <2>6 DEF ProvidersArrive
<1>5. CASE Away
  BY <1>5, AwayFacts DEF AwayKeeps, ProvidersFirst
<1>6. QED BY <1>1, <1>3, <1>4, <1>5

-----------------------------------------------------------------------------
(* First answers: picker, billing, agent and favourites *)

\* Until the first answer, the page does not say that there is nothing.
PickerFirst ==
  /\ DOMAIN st = {"at", "status", "got", "query", "connecting", "selected"}
  /\ Once("repos")
  /\ ~overtaken => \A c \in Firsts : c.kind = "repos" /\ st.status = "loading"

\* Every step keeps it so.
LEMMA PickerAsks ==
  ASSUME page = "picker", VisitType, PickerFirst, [Next]_vars
  PROVE  VisitType' /\ PickerFirst'
<1>1. PickerClick \/ (\E c \in Requests : PickerArrive(c)) \/ Away
  BY DEF Next, Click, ArriveSome, Arrive, TimerSome, PosturePages, FilterPages, Away
<1>2. DOMAIN st = {"at", "status", "got", "query", "connecting", "selected"}
  BY DEF PickerFirst
<1>3. CASE PickerClick
  <2>1. ASSUME NEW s, NEW new, Acts(s, {}, new), DOMAIN s = DOMAIN st, s.status = st.status
        PROVE  VisitType' /\ PickerFirst'
    BY <2>1, ActsFirsts DEF PickerFirst
  <2>2. \A q : /\ DOMAIN [st EXCEPT !.connecting = q] = DOMAIN st /\ [st EXCEPT !.connecting = q].status = st.status
               /\ DOMAIN [st EXCEPT !.query = q] = DOMAIN st /\ [st EXCEPT !.query = q].status = st.status
               /\ DOMAIN [st EXCEPT !.selected = q] = DOMAIN st /\ [st EXCEPT !.selected = q].status = st.status
    BY <1>2
  <2>3. QED BY <1>3, <2>1, <2>2 DEF PickerClick
<1>4. ASSUME NEW c \in Requests, PickerArrive(c)
      PROVE  VisitType' /\ PickerFirst'
  <2>1. ASSUME NEW s, Takes(c, s, {}, {}), DOMAIN s = DOMAIN st, c.kind = "repos" \/ s.status = st.status
        PROVE  VisitType' /\ PickerFirst'
    BY <2>1, TakesFirsts DEF PickerFirst
  <2>2. /\ \A a : DOMAIN [st EXCEPT !.status = "ready", !.got = a] = DOMAIN st
        /\ DOMAIN [st EXCEPT !.status = "error"] = DOMAIN st
        /\ \A a : DOMAIN [st EXCEPT !.at = a] = DOMAIN st /\ [st EXCEPT !.at = a].status = st.status
        /\ \A a : DOMAIN [st EXCEPT !.connecting = a] = DOMAIN st /\ [st EXCEPT !.connecting = a].status = st.status
    BY <1>2
  <2>3. QED BY <1>4, <2>1, <2>2 DEF PickerArrive, ReposArrive, Redirected
<1>5. CASE Away
  BY <1>5, AwayFacts DEF AwayKeeps, PickerFirst
<1>6. QED BY <1>1, <1>3, <1>4, <1>5

\* Until the first answer, the page does not say that there is nothing.
BillingFirst ==
  /\ DOMAIN st = {"subscription", "usage", "payments", "pricing", "archived", "hidden", "showArchived"}
  /\ Once("payments")
  /\ ~overtaken => \A c \in Firsts : c.kind = "payments" => st.payments = NoData

\* Every step keeps it so.
LEMMA BillingAsks ==
  ASSUME page = "billing", VisitType, BillingFirst, [Next]_vars
  PROVE  VisitType' /\ BillingFirst'
<1>1. BillingClick \/ (\E c \in Requests : BillingArrive(c)) \/ Away
  BY DEF Next, Click, ArriveSome, Arrive, TimerSome, PosturePages, FilterPages, Away
<1>2. DOMAIN st = {"subscription", "usage", "payments", "pricing", "archived", "hidden", "showArchived"}
  BY DEF BillingFirst
<1>3. CASE BillingClick
  <2>1. ASSUME NEW s, Acts(s, {}, {}) \/ \E records : ActsOn(records, s, {}), DOMAIN s = DOMAIN st, s.payments = st.payments
        PROVE  VisitType' /\ BillingFirst'
    BY <2>1, ActsFirsts, ActsOnFirsts DEF BillingFirst
  <2>2. ASSUME NEW s, Prefer(s), DOMAIN s = DOMAIN st, s.payments = st.payments
        PROVE  VisitType' /\ BillingFirst'
    BY <2>1, <2>2 DEF Prefer
  <2>3. \A a, b : /\ DOMAIN [st EXCEPT !.hidden = a] = DOMAIN st /\ [st EXCEPT !.hidden = a].payments = st.payments
                  /\ DOMAIN [st EXCEPT !.archived = a] = DOMAIN st /\ [st EXCEPT !.archived = a].payments = st.payments
                  /\ DOMAIN [st EXCEPT !.showArchived = a] = DOMAIN st /\ [st EXCEPT !.showArchived = a].payments = st.payments
                  /\ DOMAIN [st EXCEPT !.archived = a, !.showArchived = b] = DOMAIN st
                  /\ [st EXCEPT !.archived = a, !.showArchived = b].payments = st.payments
    BY <1>2
  <2>4. QED BY <1>3, <2>1, <2>2, <2>3 DEF BillingClick, Restore
<1>4. ASSUME NEW c \in Requests, BillingArrive(c)
      PROVE  VisitType' /\ BillingFirst'
  <2>1. ASSUME NEW s, Takes(c, s, {}, {}), DOMAIN s = DOMAIN st, c.kind = "payments" \/ s.payments = st.payments
        PROVE  VisitType' /\ BillingFirst'
    BY <2>1, TakesFirsts DEF BillingFirst
  <2>2. \A k, a, b : /\ DOMAIN [st EXCEPT ![k] = a] = DOMAIN st /\ (k # "payments" => [st EXCEPT ![k] = a].payments = st.payments)
                     /\ DOMAIN [st EXCEPT !.archived = a, !.hidden = b] = DOMAIN st
                     /\ [st EXCEPT !.archived = a, !.hidden = b].payments = st.payments
    BY <1>2
  <2>3. QED BY <1>4, <2>1, <2>2 DEF BillingArrive, BillingLoaded, StorageChanged
<1>5. CASE Away
  BY <1>5, AwayFacts DEF AwayKeeps, BillingFirst
<1>6. QED BY <1>1, <1>3, <1>4, <1>5

\* Until the first answer, the page does not say that there is nothing.
AgentFirst ==
  /\ DOMAIN st = {"id", "agent", "error", "tab"}
  /\ Once("agent")
  /\ ~overtaken => \A c \in Firsts : c.kind = "agent" /\ st.agent = NoData

\* Every step keeps it so.
LEMMA AgentAsks ==
  ASSUME page = "agent", VisitType, AgentFirst, [Next]_vars
  PROVE  VisitType' /\ AgentFirst'
<1>1. AgentClick \/ (\E c \in Requests : AgentArrives(c)) \/ Away
  BY DEF Next, Click, ArriveSome, Arrive, TimerSome, PosturePages, FilterPages, Away
<1>2. DOMAIN st = {"id", "agent", "error", "tab"}
  BY DEF AgentFirst
<1>3. CASE AgentClick
  <2>1. PICK t : Acts([st EXCEPT !.tab = t], {}, {})
    BY <1>3 DEF AgentClick
  <2>2. DOMAIN [st EXCEPT !.tab = t] = DOMAIN st /\ [st EXCEPT !.tab = t].agent = st.agent
    BY <1>2
  <2>3. QED BY <2>1, <2>2, ActsFirsts DEF AgentFirst
<1>4. ASSUME NEW c \in Requests, AgentArrives(c)
      PROVE  VisitType' /\ AgentFirst'
  <2>1. PICK s \in {[st EXCEPT !.error = TRUE], [st EXCEPT !.agent = Answer(c)]} : Takes(c, s, {}, {})
    BY <1>4 DEF AgentArrives
  <2>2. DOMAIN s = DOMAIN st /\ c.kind = "agent"
    BY <1>4 DEF AgentArrives
  <2>3. QED BY <2>1, <2>2, TakesFirsts DEF AgentFirst
<1>5. CASE Away
  BY <1>5, AwayFacts DEF AwayKeeps, AgentFirst
<1>6. QED BY <1>1, <1>3, <1>4, <1>5

\* Until the first answer, the page does not say that there is nothing.
SavedFirst ==
  /\ DOMAIN st = {"items", "loading"}
  /\ Once("favorites")
  /\ ~overtaken => \A c \in Firsts : c.kind = "favorites" /\ st.loading

\* Every step keeps it so.
LEMMA SavedAsks ==
  ASSUME page = "saved", VisitType, SavedFirst, [Next]_vars
  PROVE  VisitType' /\ SavedFirst'
<1>1. (\E c \in Requests : SavedArrives(c)) \/ Away
  BY DEF Next, Click, ArriveSome, Arrive, TimerSome, PosturePages, FilterPages, Away
<1>2. ASSUME NEW c \in Requests, SavedArrives(c)
      PROVE  VisitType' /\ SavedFirst'
  <2>1. ASSUME NEW s, Takes(c, s, {}, {}), DOMAIN s = DOMAIN st, c.kind = "favorites"
        PROVE  VisitType' /\ SavedFirst'
    BY <2>1, TakesFirsts DEF SavedFirst
  <2>2. \A a : DOMAIN [st EXCEPT !.loading = FALSE, !.items = a] = DOMAIN st
    OBVIOUS
  <2>3. QED BY <1>2, <2>1, <2>2 DEF SavedArrives
<1>3. CASE Away
  BY <1>3, AwayFacts DEF AwayKeeps, SavedFirst
<1>4. QED BY <1>1, <1>2, <1>3

-----------------------------------------------------------------------------
(* First answers: dashboard, posture, marketplace and status *)

Details == {"findingsOf", "stagesOf"}

\* Until the first answer, the page does not say that there is nothing.
DashboardFirst ==
  /\ DOMAIN st = {"scans", "summaries", "error", "github", "usage"}
  /\ Once("scans")
  /\ ~overtaken => \A c \in Firsts : c.kind = "scans" => st.summaries = NoData /\ \A d \in Requests : d.kind \notin Details

\* Every step keeps it so.
LEMMA DashboardAsks ==
  ASSUME page = "dashboard", VisitType, DashboardFirst, [Next]_vars
  PROVE  VisitType' /\ DashboardFirst'
<1>1. (\E c \in Requests : DashboardArrive(c)) \/ Away
  BY DEF Next, Click, ArriveSome, Arrive, TimerSome, PosturePages, FilterPages, Away
<1>2. DOMAIN st = {"scans", "summaries", "error", "github", "usage"}
  BY DEF DashboardFirst
<1>3. ASSUME NEW c \in Requests, DashboardArrive(c)
      PROVE  VisitType' /\ DashboardFirst'
  <2>1. ASSUME NEW s, NEW new, Takes(c, s, {}, new), DOMAIN s = DOMAIN st,
               c.kind = "scans" \/ (s.summaries = st.summaries /\ new = {})
        PROVE  VisitType' /\ DashboardFirst'
    <3>1. new = {} => Requests' \subseteq Requests
      <4>1. new = {} => New(new) = {}
        BY NumberedNone DEF New
      <4>2. QED BY <2>1, <4>1, TakesFacts DEF Sends
    <3>2. QED BY <2>1, <3>1, TakesFirsts DEF DashboardFirst
  <2>2. CASE ScansArrive(c)
    <3>1. /\ \A a, b : DOMAIN Summarized(a, b) = DOMAIN st
          /\ \A a : DOMAIN [st EXCEPT !.scans = a] = DOMAIN st
      BY DEF Summarized
    <3>2. c.kind = "scans"
      BY <2>2 DEF ScansArrive
    <3>3. \/ Takes(c, Summarized(<<>>, TRUE), {}, Load({"usage"}))
          \/ Takes(c, Summarized(<<>>, FALSE), {}, Load({"usage"}))
          \/ Takes(c, [st EXCEPT !.scans = Answer(c)], {}, DetailsOf(DOMAIN Answer(c)))
      BY <2>2 DEF ScansArrive
    <3>4. ASSUME NEW a, NEW b, NEW new, Takes(c, Summarized(a, b), {}, new)
          PROVE  VisitType' /\ DashboardFirst'
      <4>1. DOMAIN Summarized(a, b) = DOMAIN st
        BY <3>1
      <4>2. QED BY <2>1, <3>2, <3>4, <4>1
    <3>5. CASE Takes(c, [st EXCEPT !.scans = Answer(c)], {}, DetailsOf(DOMAIN Answer(c)))
      BY <2>1, <3>1, <3>2, <3>5
    <3>6. QED BY <3>3, <3>4, <3>5
  <2>3. CASE DetailsArrive(c)
    <3>1. c \in Requests /\ c.kind \in Details
      BY <2>3 DEF DetailsArrive, Asking, Details
    <3>2. PICK a, dropped, new : Takes(c, Summarized(a, FALSE), dropped, new)
      BY <2>3 DEF DetailsArrive
    <3>3. DOMAIN Summarized(a, FALSE) = DOMAIN st
      BY DEF Summarized
    <3>4. QED BY <3>1, <3>2, <3>3, TakesFirsts DEF DashboardFirst
  <2>4. CASE GithubArrives(c)
    <3>1. \A a : DOMAIN [st EXCEPT !.github = a] = DOMAIN st /\ [st EXCEPT !.github = a].summaries = st.summaries
      BY <1>2
    <3>2. QED BY <2>1, <2>4, <3>1 DEF GithubArrives
  <2>5. CASE MetersArrive(c)
    <3>1. \A a : DOMAIN [st EXCEPT !.usage = a] = DOMAIN st /\ [st EXCEPT !.usage = a].summaries = st.summaries
      BY <1>2
    <3>2. QED BY <2>1, <2>5, <3>1 DEF MetersArrive
  <2>6. QED BY <1>3, <2>2, <2>3, <2>4, <2>5 DEF DashboardArrive
<1>4. CASE Away
  BY <1>4, AwayFacts DEF AwayKeeps, DashboardFirst, Details
<1>5. QED BY <1>1, <1>3, <1>4

\* Until the first answer, the page does not say that there is nothing.
PostureFirst ==
  /\ DOMAIN st = {"rows", "error", "filter", "expanded", "removing", "may"}
  /\ Once(ListKind[page])
  /\ ~overtaken => \A c \in Firsts : c.kind = ListKind[page] => st.rows = NoData /\ \A d \in Requests : d.kind # "forget"

\* Every step keeps it so.
LEMMA PostureAsks ==
  ASSUME page \in PosturePages, VisitType, PostureFirst, [Next]_vars, page' = page
  PROVE  VisitType' /\ PostureFirst'
<1>1. PostureClick \/ (\E c \in Requests : PostureArrive(c)) \/ Away
  BY DEF Next, Click, ArriveSome, Arrive, TimerSome, PosturePages, FilterPages, Away
<1>2. DOMAIN st = {"rows", "error", "filter", "expanded", "removing", "may"}
  BY DEF PostureFirst
<1>3. ListKind[page] \notin {"forget", "membership"}
  BY DEF ListKind, PosturePages
<1> DEFINE kind == ListKind[page]
<1>4. ListKind[page]' = kind
  OBVIOUS
<1>5. CASE PostureClick
  <2>1. ASSUME NEW s, NEW new, Acts(s, {}, new), DOMAIN s = DOMAIN st, st.rows # NoData
        PROVE  VisitType' /\ PostureFirst'
    BY <1>4, <2>1, ActsFirsts DEF PostureFirst
  <2>2. st.rows # NoData
    BY <1>5 DEF PostureClick
  <2>3. \A a : /\ DOMAIN [st EXCEPT !.removing = a] = DOMAIN st
               /\ DOMAIN [st EXCEPT !.filter = a] = DOMAIN st
               /\ DOMAIN [st EXCEPT !.expanded = a] = DOMAIN st
    OBVIOUS
  <2>4. QED BY <1>5, <2>1, <2>2, <2>3 DEF PostureClick, Forget
<1>6. ASSUME NEW c \in Requests, PostureArrive(c)
      PROVE  VisitType' /\ PostureFirst'
  <2>1. ASSUME NEW s, Takes(c, s, {}, {}), DOMAIN s = DOMAIN st, c.kind \in {kind, "forget"} \/ s.rows = st.rows
        PROVE  VisitType' /\ PostureFirst'
    <3>1. Requests' \subseteq Requests
      <4>1. New({}) = {}
        BY NumberedNone DEF New
      <4>2. QED BY <2>1, <4>1, TakesFacts DEF Sends
    <3>2. QED BY <1>4, <2>1, <3>1, TakesFirsts DEF PostureFirst
  <2>2. \A a, b : /\ DOMAIN [st EXCEPT !.rows = a, !.error = TRUE] = DOMAIN st
                  /\ DOMAIN [st EXCEPT !.rows = a] = DOMAIN st
                  /\ DOMAIN [st EXCEPT !.may = a] = DOMAIN st /\ [st EXCEPT !.may = a].rows = st.rows
                  /\ DOMAIN [st EXCEPT !.removing = None, !.rows = a] = DOMAIN st
    BY <1>2
  <2>3. QED BY <1>6, <2>1, <2>2 DEF PostureArrive, ListArrives, GrantArrives, Forgotten
<1>7. CASE Away
  BY <1>4, <1>7, AwayFacts DEF AwayKeeps, PostureFirst
<1>8. QED BY <1>1, <1>5, <1>6, <1>7

\* Until the first answer, the page does not say that there is nothing.
RegistryFirst ==
  /\ DOMAIN st = {"items", "types", "rails", "loading", "error", "more", "nr", "filter", "hasty"}
  /\ Once("browse")
  /\ ~overtaken => \A c \in Firsts : c.kind = "browse" => st.loading /\ ~st.error

\* Every step keeps it so.
LEMMA RegistryAsks ==
  ASSUME page = "registry", VisitType, RegistryFirst, [Next]_vars
  PROVE  VisitType' /\ RegistryFirst'
<1>1. RegistryClick \/ (\E c \in Requests : RegistryArrive(c)) \/ Away
  BY DEF Next, Click, ArriveSome, Arrive, TimerSome, PosturePages, FilterPages, Away
<1>2. DOMAIN st = {"items", "types", "rails", "loading", "error", "more", "nr", "filter", "hasty"}
  BY DEF RegistryFirst
<1>3. CASE RegistryClick
  <2>1. ASSUME NEW s, NEW dropped, NEW new, Acts(s, dropped, new), DOMAIN s = DOMAIN st,
               st.loading => s.loading, st.error \/ ~s.error
        PROVE  VisitType' /\ RegistryFirst'
    BY <2>1, ActsFirsts DEF RegistryFirst
  <2>2. \A f : /\ DOMAIN [st EXCEPT !.filter = f] = DOMAIN st
               /\ [st EXCEPT !.filter = f].loading = st.loading /\ [st EXCEPT !.filter = f].error = st.error
    BY <1>2
  <2>3. \A h : /\ DOMAIN [st EXCEPT !.loading = TRUE, !.error = FALSE, !.hasty = h] = DOMAIN st
               /\ [st EXCEPT !.loading = TRUE, !.error = FALSE, !.hasty = h].loading
               /\ ~[st EXCEPT !.loading = TRUE, !.error = FALSE, !.hasty = h].error
    BY <1>2
  <2>4. ASSUME NEW f, Choose(f)
        PROVE  VisitType' /\ RegistryFirst'
    BY <2>1, <2>2, <2>4 DEF Choose
  <2>5. ASSUME NEW n, NEW more, LoadMore(n, more)
        PROVE  VisitType' /\ RegistryFirst'
    BY <2>1, <2>3, <2>5 DEF LoadMore
  <2>6. QED BY <1>3, <2>4, <2>5 DEF RegistryClick
<1>4. ASSUME NEW c \in Requests, RegistryArrive(c)
      PROVE  VisitType' /\ RegistryFirst'
  <2>1. ASSUME NEW s, Takes(c, s, {}, {}), DOMAIN s = DOMAIN st,
               c.kind = "browse" \/ (s.loading = st.loading /\ s.error = st.error)
        PROVE  VisitType' /\ RegistryFirst'
    BY <2>1, TakesFirsts DEF RegistryFirst
  <2>2. CASE FacetsArrive(c)
    <3>1. \A a : /\ DOMAIN [st EXCEPT !.types = a] = DOMAIN st /\ DOMAIN [st EXCEPT !.rails = a] = DOMAIN st
                 /\ [st EXCEPT !.types = a].loading = st.loading /\ [st EXCEPT !.types = a].error = st.error
                 /\ [st EXCEPT !.rails = a].loading = st.loading /\ [st EXCEPT !.rails = a].error = st.error
      BY <1>2
    <3>2. QED BY <2>1, <2>2, <3>1 DEF FacetsArrive
  <2>3. CASE PageArrives(c)
    <3>1. \A a, b, d, e : DOMAIN [st EXCEPT !.error = a, !.items = b, !.more = d, !.nr = e, !.loading = FALSE] = DOMAIN st
      OBVIOUS
    <3>2. DOMAIN [st EXCEPT !.error = TRUE, !.loading = FALSE] = DOMAIN st
      OBVIOUS
    <3>3. c.kind = "browse"
      BY <2>3 DEF PageArrives
    <3>4. CASE Threw(c)
      BY <2>1, <2>3, <3>2, <3>3, <3>4 DEF PageArrives
    <3>5. CASE ~Threw(c)
      <4> DEFINE s == [st EXCEPT !.error = IF c.arg.button THEN @ ELSE FALSE,
                                 !.items = IF c.arg.append THEN @ \o Answer(c).items ELSE Answer(c).items,
                                 !.more = Answer(c).more, !.nr = Answer(c).nr, !.loading = FALSE]
      <4>1. Takes(c, s, {}, {})
        BY <2>3, <3>5 DEF PageArrives
      <4>2. DOMAIN s = DOMAIN st
        OBVIOUS
      <4> HIDE DEF s
      <4>3. QED BY <2>1, <3>3, <4>1, <4>2
    <3>6. QED BY <3>4, <3>5
  <2>4. QED BY <1>4, <2>2, <2>3 DEF RegistryArrive
<1>5. CASE Away
  BY <1>5, AwayFacts DEF AwayKeeps, RegistryFirst
<1>6. QED BY <1>1, <1>3, <1>4, <1>5

\* Until the first answer, the page does not say that there is nothing.
StatusFirst ==
  /\ DOMAIN st = {"services", "checked", "history"}
  /\ Once("history")
  /\ ~overtaken => \A c \in Firsts : c.kind = "history" => st.history = NoData

\* Every step keeps it so.
LEMMA StatusAsks ==
  ASSUME page = "status", VisitType, StatusFirst, [Next]_vars
  PROVE  VisitType' /\ StatusFirst'
<1>1. (\E c \in Requests : StatusArrive(c)) \/ Away
  BY DEF Next, Click, ArriveSome, Arrive, TimerSome, PosturePages, FilterPages, Away
<1>2. DOMAIN st = {"services", "checked", "history"}
  BY DEF StatusFirst
<1>3. ASSUME NEW c \in Requests, StatusArrive(c)
      PROVE  VisitType' /\ StatusFirst'
  <2>1. ASSUME NEW s, NEW dropped, Takes(c, s, dropped, {}), DOMAIN s = DOMAIN st,
               c.kind = "history" \/ s.history = st.history
        PROVE  VisitType' /\ StatusFirst'
    BY <2>1, TakesFirsts DEF StatusFirst
  <2>2. \A a : /\ DOMAIN [st EXCEPT !.checked = TRUE, !.services = a] = DOMAIN st
               /\ [st EXCEPT !.checked = TRUE, !.services = a].history = st.history
               /\ DOMAIN [st EXCEPT !.history = a] = DOMAIN st
    BY <1>2
  <2>3. QED BY <1>3, <2>1, <2>2 DEF StatusArrive, ProbesArrive, HistoryArrives
<1>4. CASE Away
  BY <1>4, AwayFacts DEF AwayKeeps, StatusFirst
<1>5. QED BY <1>1, <1>3, <1>4

-----------------------------------------------------------------------------
(* First answers: the registry of the administration *)

AdminFields ==
  {"rows", "query", "shown", "loading", "panels", "busy", "outcome", "bulk", "focus", "categories", "naming", "saving"}

\* Until the first answer, the page does not say that there is nothing.
AdminRegistryFirst ==
  /\ DOMAIN st = AdminFields
  /\ Once("categories") /\ Once("list") /\ Once("panels")
  /\ st.query \in Queries
  /\ ~overtaken => /\ \A c \in Firsts : c.kind = "categories" => st.categories = NoData
                   /\ \A c \in Firsts : c.kind = "list" => st.shown = None
                   /\ \A c, d \in Firsts : c.kind = "list" /\ d.kind = "panels" => st.loading /\ st.panels = None

\* What of the state the loads fill, and what the rest of the page leaves alone.
SameLoads(s) ==
  /\ DOMAIN s = DOMAIN st
  /\ s.categories = st.categories /\ s.shown = st.shown /\ s.loading = st.loading /\ s.panels = st.panels

\* Every step keeps it so.
LEMMA AdminRegistryAsks ==
  ASSUME page = "adminRegistry", VisitType, AdminRegistryFirst, [Next]_vars
  PROVE  VisitType' /\ AdminRegistryFirst'
<1>1. AdminRegistryClick \/ (\E c \in Requests : AdminRegistryArrive(c)) \/ Away
  BY DEF Next, Click, ArriveSome, Arrive, TimerSome, PosturePages, FilterPages, Away
<1>2. DOMAIN st = AdminFields /\ st.query \in Queries
  BY DEF AdminRegistryFirst
<1>3. \A a, b : /\ SameLoads([st EXCEPT !.busy = a, !.outcome = b]) /\ [st EXCEPT !.busy = a, !.outcome = b].query = st.query
                /\ SameLoads([st EXCEPT !.bulk = a]) /\ [st EXCEPT !.bulk = a].query = st.query
                /\ SameLoads([st EXCEPT !.naming = a]) /\ [st EXCEPT !.naming = a].query = st.query
                /\ SameLoads([st EXCEPT !.saving = a]) /\ [st EXCEPT !.saving = a].query = st.query
                /\ SameLoads([st EXCEPT !.saving = a, !.naming = b]) /\ [st EXCEPT !.saving = a, !.naming = b].query = st.query
                /\ SameLoads([st EXCEPT !.query = a]) /\ [st EXCEPT !.query = a].query = a
  BY <1>2 DEF AdminFields, SameLoads
<1>4. CASE AdminRegistryClick
  <2>1. ASSUME NEW s, NEW dropped, NEW new, Acts(s, dropped, new), SameLoads(s), s.query \in Queries
        PROVE  VisitType' /\ AdminRegistryFirst'
    BY <2>1, ActsFirsts DEF AdminRegistryFirst, SameLoads
  <2>2. ASSUME NEW b, NEW new, Acts([st EXCEPT !.bulk = b], {}, new)
        PROVE  VisitType' /\ AdminRegistryFirst'
    <3> DEFINE s == [st EXCEPT !.bulk = b]
    <3>1. SameLoads(s) /\ s.query \in Queries /\ Acts(s, {}, new)
      BY <1>2, <1>3, <2>2
    <3> HIDE DEF s
    <3>2. QED BY <2>1, <3>1
  <2>3. ASSUME NEW q \in Queries, AskList(q)
        PROVE  VisitType' /\ AdminRegistryFirst'
    <3> DEFINE s == [st EXCEPT !.query = q]
    <3>1. SameLoads(s) /\ s.query \in Queries /\ Acts(s, Asking({"list"}), {Ask("list", q)})
      BY <1>3, <2>3 DEF AskList
    <3> HIDE DEF s
    <3>2. QED BY <2>1, <3>1
  <2>4. ASSUME NEW i, NEW k, NEW p, NEW t, Act(i, k, p, t)
        PROVE  VisitType' /\ AdminRegistryFirst'
    <3> DEFINE s == [st EXCEPT !.busy = i, !.outcome = None]
    <3>1. SameLoads(s) /\ s.query \in Queries
      BY <1>2, <1>3
    <3>2. \E new : Acts(s, {}, new)
      BY <2>4 DEF Act
    <3> HIDE DEF s
    <3>3. QED BY <2>1, <3>1, <3>2
  <2>5. CASE BulkClick
    <3>1. \E b, new : Acts([st EXCEPT !.bulk = b], {}, new)
      <4>1. \A bar : Preview(bar) => \E b, new : Acts([st EXCEPT !.bulk = b], {}, new)
        BY DEF Preview
      <4>2. Publish => \E b, new : Acts([st EXCEPT !.bulk = b], {}, new)
        <5>1. Publish => Acts([st EXCEPT !.bulk = [st.bulk EXCEPT !.phase = "publishing", !.confirmed = st.bulk.plan]], {},
                              {Ask("publish", st.bulk.plan.bar)})
          <6>1. [st EXCEPT !.bulk.phase = "publishing", !.bulk.confirmed = st.bulk.plan]
                = [st EXCEPT !.bulk = [st.bulk EXCEPT !.phase = "publishing", !.confirmed = st.bulk.plan]]
            BY <1>2 DEF AdminFields
          <6>2. QED BY <6>1 DEF Publish
        <5>2. QED BY <5>1
      <4>3. Acts([st EXCEPT !.bulk.open = FALSE], {}, {}) => \E b, new : Acts([st EXCEPT !.bulk = b], {}, new)
        OBVIOUS
      <4>4. QED BY <2>5, <4>1, <4>2, <4>3 DEF BulkClick
    <3>2. QED BY <2>2, <3>1
  <2>6. ASSUME CategoriesClick
        PROVE  VisitType' /\ AdminRegistryFirst'
    <3>1. \E a, new : Acts([st EXCEPT !.naming = a], {}, new) \/ Acts([st EXCEPT !.saving = a], {}, new)
      BY <2>6 DEF CategoriesClick
    <3>2. PICK a, new : Acts([st EXCEPT !.naming = a], {}, new) \/ Acts([st EXCEPT !.saving = a], {}, new)
      BY <3>1
    <3> DEFINE s == [st EXCEPT !.naming = a]
               u == [st EXCEPT !.saving = a]
    <3>3. SameLoads(s) /\ SameLoads(u) /\ s.query \in Queries /\ u.query \in Queries
      BY <1>2, <1>3
    <3>4. Acts(s, {}, new) \/ Acts(u, {}, new)
      BY <3>2
    <3> HIDE DEF s, u
    <3>5. QED BY <2>1, <3>3, <3>4
  <2>7. CASE RowsClick
    <3>1. ASSUME NEW x \in {None, "published"}
          PROVE  [status |-> x, nr |-> 0] \in Queries
      BY DEF Queries
    <3>2. DOMAIN st.query = {"status", "nr"} /\ st.query.status \in {None, "published"} /\ st.query.nr \in Nat
      BY <1>2 DEF Queries
    <3>3. st.query.nr > 0 => [st.query EXCEPT !.nr = @ - 1] \in Queries
      BY <1>2, <3>2 DEF Queries
    <3>4. [st.query EXCEPT !.nr = @ + 1] \in Queries
      BY <1>2, <3>2 DEF Queries
    <3>5. QED BY <2>3, <2>4, <2>7, <3>1, <3>3, <3>4 DEF RowsClick
  <2>8. CASE PanelsClick
    BY <2>4, <2>8 DEF PanelsClick
  <2>9. QED BY <1>4, <2>5, <2>6, <2>7, <2>8 DEF AdminRegistryClick
<1>5. ASSUME NEW c \in Requests, AdminRegistryArrive(c)
      PROVE  VisitType' /\ AdminRegistryFirst'
  <2>1. ASSUME NEW s, NEW dropped, NEW new, Takes(c, s, dropped, new), DOMAIN s = DOMAIN st, s.query = st.query,
               c.kind = "categories" \/ s.categories = st.categories,
               c.kind = "list" \/ (s.shown = st.shown /\ s.loading = st.loading),
               c.kind = "panels" \/ s.panels = st.panels
        PROVE  VisitType' /\ AdminRegistryFirst'
    BY <1>2, <2>1, TakesFirsts DEF AdminRegistryFirst
  <2>2. ASSUME NEW s, NEW dropped, NEW new, Takes(c, s, dropped, new), SameLoads(s), s.query = st.query
        PROVE  VisitType' /\ AdminRegistryFirst'
    BY <2>1, <2>2 DEF SameLoads
  <2>3. CASE AdminListArrives(c)
    <3>1. \/ \E a, b : c.kind = "list" /\ Takes(c, [st EXCEPT !.rows = a, !.shown = b, !.loading = FALSE], {}, {})
          \/ \E a : c.kind = "panels" /\ Takes(c, [st EXCEPT !.panels = a], {}, {})
          \/ \E a : c.kind = "categories" /\ Takes(c, [st EXCEPT !.categories = a], {}, {})
      BY <2>3 DEF AdminListArrives
    <3>2. \A a, b : LET s == [st EXCEPT !.rows = a, !.shown = b, !.loading = FALSE]
                    IN  DOMAIN s = DOMAIN st /\ s.query = st.query /\ s.categories = st.categories /\ s.panels = st.panels
      BY <1>2 DEF AdminFields
    <3>3. \A a : LET s == [st EXCEPT !.panels = a]
                 IN  /\ DOMAIN s = DOMAIN st /\ s.query = st.query /\ s.categories = st.categories
                     /\ s.shown = st.shown /\ s.loading = st.loading
      BY <1>2 DEF AdminFields
    <3>4. \A a : LET s == [st EXCEPT !.categories = a]
                 IN  /\ DOMAIN s = DOMAIN st /\ s.query = st.query /\ s.panels = st.panels
                     /\ s.shown = st.shown /\ s.loading = st.loading
      BY <1>2 DEF AdminFields
    <3>5. CASE \E a, b : c.kind = "list" /\ Takes(c, [st EXCEPT !.rows = a, !.shown = b, !.loading = FALSE], {}, {})
      <4>1. PICK a, b : c.kind = "list" /\ Takes(c, [st EXCEPT !.rows = a, !.shown = b, !.loading = FALSE], {}, {})
        BY <3>5
      <4> DEFINE s == [st EXCEPT !.rows = a, !.shown = b, !.loading = FALSE]
      <4>2. DOMAIN s = DOMAIN st /\ s.query = st.query /\ s.categories = st.categories /\ s.panels = st.panels
        BY <3>2
      <4>3. c.kind = "list" /\ Takes(c, s, {}, {})
        BY <4>1
      <4> HIDE DEF s
      <4>4. QED BY <2>1, <4>2, <4>3
    <3>6. CASE \E a : c.kind = "panels" /\ Takes(c, [st EXCEPT !.panels = a], {}, {})
      <4>1. PICK a : c.kind = "panels" /\ Takes(c, [st EXCEPT !.panels = a], {}, {})
        BY <3>6
      <4> DEFINE s == [st EXCEPT !.panels = a]
      <4>2. /\ DOMAIN s = DOMAIN st /\ s.query = st.query /\ s.categories = st.categories
            /\ s.shown = st.shown /\ s.loading = st.loading
        BY <3>3
      <4>3. c.kind = "panels" /\ Takes(c, s, {}, {})
        BY <4>1
      <4> HIDE DEF s
      <4>4. QED BY <2>1, <4>2, <4>3
    <3>7. CASE \E a : c.kind = "categories" /\ Takes(c, [st EXCEPT !.categories = a], {}, {})
      <4>1. PICK a : c.kind = "categories" /\ Takes(c, [st EXCEPT !.categories = a], {}, {})
        BY <3>7
      <4> DEFINE s == [st EXCEPT !.categories = a]
      <4>2. /\ DOMAIN s = DOMAIN st /\ s.query = st.query /\ s.panels = st.panels
            /\ s.shown = st.shown /\ s.loading = st.loading
        BY <3>4
      <4>3. c.kind = "categories" /\ Takes(c, s, {}, {})
        BY <4>1
      <4> HIDE DEF s
      <4>4. QED BY <2>1, <4>2, <4>3
    <3>8. QED BY <3>1, <3>5, <3>6, <3>7
  <2>4. CASE ActDone(c)
    <3>1. PICK a, dropped, new : Takes(c, [st EXCEPT !.busy = None, !.outcome = a], dropped, new)
      BY <2>4 DEF ActDone
    <3> DEFINE s == [st EXCEPT !.busy = None, !.outcome = a]
    <3>2. SameLoads(s) /\ s.query = st.query /\ Takes(c, s, dropped, new)
      BY <1>3, <3>1
    <3> HIDE DEF s
    <3>3. QED BY <2>2, <3>2
  <2>5. CASE BulkArrives(c)
    <3>1. \E b, dropped, new : Takes(c, [st EXCEPT !.bulk = b], dropped, new)
      <4>1. \A a, b : [st EXCEPT !.bulk.phase = a, !.bulk.plan = b] = [st EXCEPT !.bulk = [st.bulk EXCEPT !.phase = a, !.plan = b]]
        BY <1>2 DEF AdminFields
      <4>2. \A a : [st EXCEPT !.bulk.phase = a] = [st EXCEPT !.bulk = [st.bulk EXCEPT !.phase = a]]
        BY <1>2 DEF AdminFields
      <4>3. \/ \E a, dropped, new : Takes(c, [st EXCEPT !.bulk.phase = a], dropped, new)
            \/ \E a, b, dropped, new : Takes(c, [st EXCEPT !.bulk.phase = a, !.bulk.plan = b], dropped, new)
        BY <2>5 DEF BulkArrives
      <4>4. CASE \E a, dropped, new : Takes(c, [st EXCEPT !.bulk.phase = a], dropped, new)
        <5>1. PICK a, dropped, new : Takes(c, [st EXCEPT !.bulk.phase = a], dropped, new)
          BY <4>4
        <5>2. Takes(c, [st EXCEPT !.bulk = [st.bulk EXCEPT !.phase = a]], dropped, new)
          BY <4>2, <5>1
        <5>3. QED BY <5>2
      <4>5. CASE \E a, b, dropped, new : Takes(c, [st EXCEPT !.bulk.phase = a, !.bulk.plan = b], dropped, new)
        <5>1. PICK a, b, dropped, new : Takes(c, [st EXCEPT !.bulk.phase = a, !.bulk.plan = b], dropped, new)
          BY <4>5
        <5>2. Takes(c, [st EXCEPT !.bulk = [st.bulk EXCEPT !.phase = a, !.plan = b]], dropped, new)
          BY <4>1, <5>1
        <5>3. QED BY <5>2
      <4>6. QED BY <4>3, <4>4, <4>5
    <3>2. PICK b, dropped, new : Takes(c, [st EXCEPT !.bulk = b], dropped, new)
      BY <3>1
    <3> DEFINE s == [st EXCEPT !.bulk = b]
    <3>3. SameLoads(s) /\ s.query = st.query /\ Takes(c, s, dropped, new)
      BY <1>3, <3>2
    <3> HIDE DEF s
    <3>4. QED BY <2>2, <3>3
  <2>6. CASE CategoryDone(c)
    <3>1. PICK a, dropped, new : Takes(c, [st EXCEPT !.saving = None, !.naming = a], dropped, new)
      BY <2>6 DEF CategoryDone
    <3> DEFINE s == [st EXCEPT !.saving = None, !.naming = a]
    <3>2. SameLoads(s) /\ s.query = st.query /\ Takes(c, s, dropped, new)
      BY <1>3, <3>1
    <3> HIDE DEF s
    <3>3. QED BY <2>2, <3>2
  <2>7. QED BY <1>5, <2>3, <2>4, <2>5, <2>6 DEF AdminRegistryArrive
<1>6. CASE Away
  BY <1>6, AwayFacts DEF AwayKeeps, AdminRegistryFirst
<1>7. QED BY <1>1, <1>4, <1>5, <1>6

-----------------------------------------------------------------------------
(* First answers: all pages *)

LEMMA MountedFirsts ==
  ASSUME NEW p, NEW s, NEW new, NEW records, Mounted(p, s, new, records)
  PROVE  /\ page = p /\ st = s /\ VisitType
         /\ (\A c \in Firsts : \E r \in new : c.kind = r.kind)
         /\ \A k : (\A q, r \in new : q.kind = k /\ r.kind = k => q.arg = r.arg) => Once(k)
         /\ \A r \in new : \E c \in Firsts : c.kind = r.kind
         /\ \A d \in Requests : \E r \in new : d.kind = r.kind
<1>1. /\ page = p /\ st = s /\ VisitType /\ Requests = Numbered(1, new)
      /\ \A c \in Requests : c.id = 1 /\ \E r \in new : c.kind = r.kind /\ c.arg = r.arg
  BY MountedFacts
<1>2. Firsts = Requests
  BY <1>1 DEF Firsts
<1>3. ASSUME NEW k, \A q, r \in new : q.kind = k /\ r.kind = k => q.arg = r.arg, NEW c \in Firsts, NEW d \in Firsts, c.kind = k, d.kind = k
      PROVE  c = d
  <2>1. c.arg = d.arg /\ c.id = 1 /\ d.id = 1
    BY <1>1, <1>2, <1>3
  <2>2. QED BY <1>1, <1>2, <1>3, <2>1 DEF VisitType, Formed
<1>4. ASSUME NEW r \in new
      PROVE  \E c \in Firsts : c.kind = r.kind
  <2>1. [id |-> 1, kind |-> r.kind, arg |-> r.arg] \in Firsts
    BY <1>1, <1>2 DEF Numbered
  <2>2. QED BY <2>1
<1>5. QED BY <1>1, <1>2, <1>3, <1>4 DEF Once

\* What is so while the first answer of a page is on its way.
FirstInv ==
  /\ VisitType
  /\ page = "keys" => KeysFirst
  /\ page = "providers" => ProvidersFirst
  /\ page = "picker" => PickerFirst
  /\ page = "billing" => BillingFirst
  /\ page = "dashboard" => DashboardFirst
  /\ page \in PosturePages => PostureFirst
  /\ page = "agent" => AgentFirst
  /\ page = "registry" => RegistryFirst
  /\ page = "saved" => SavedFirst
  /\ page = "adminRegistry" => AdminRegistryFirst
  /\ page = "status" => StatusFirst

EmptyPages == {"keys", "providers", "picker", "billing", "dashboard", "agent", "registry", "saved", "adminRegistry", "status"}
              \cup PosturePages

LEMMA FirstInvOthers == VisitType /\ page \notin EmptyPages => FirstInv
BY DEF EmptyPages, FirstInv

LEMMA FirstInvInit == Init => FirstInv
<1> USE MountedFirsts, LoadFacts
<1>1. ASSUME KeysInit PROVE page = "keys" /\ VisitType /\ KeysFirst
  BY <1>1 DEF KeysInit, KeysFirst
<1>2. ASSUME ProvidersInit PROVE page = "providers" /\ VisitType /\ ProvidersFirst
  <2>1. PICK s, records : /\ Mounted("providers", s, Load({"providers", "models"}), records)
                          /\ DOMAIN s = {"creds", "models", "loading", "dialog", "opened"} /\ s.loading
    BY <1>2 DEF ProvidersInit
  <2>2. Once("providers") /\ Once("models")
    BY <2>1
  <2> DEFINE new == Load({"providers", "models"})
  <2>3. (\A r \in new : r.kind \in {"providers", "models"}) /\ \A k \in {"providers", "models"} : \E r \in new : r.kind = k
    BY LoadFacts
  <2>4. Mounted("providers", s, new, records)
    BY <2>1
  <2> HIDE DEF new
  <2>5. (\A c \in Firsts : \E r \in new : c.kind = r.kind) /\ \A r \in new : \E c \in Firsts : c.kind = r.kind
    BY <2>4
  <2>6. /\ \A c \in Firsts : c.kind \in {"providers", "models"}
        /\ (\E c \in Firsts : c.kind = "providers") /\ \E c \in Firsts : c.kind = "models"
    BY <2>3, <2>5
  <2>7. page = "providers" /\ VisitType /\ st = s
    BY <2>1
  <2>8. QED BY <2>1, <2>2, <2>6, <2>7 DEF ProvidersFirst
<1>3. ASSUME PickerInit PROVE page = "picker" /\ VisitType /\ PickerFirst
  BY <1>3 DEF PickerInit, PickerFirst
<1>4. ASSUME BillingInit PROVE page = "billing" /\ VisitType /\ BillingFirst
  BY <1>4 DEF BillingInit, BillingFirst
<1>5. ASSUME DashboardInit PROVE page = "dashboard" /\ VisitType /\ DashboardFirst
  BY <1>5 DEF DashboardInit, DashboardFirst, Details
<1>6. ASSUME PostureInit PROVE page \in PosturePages /\ VisitType /\ PostureFirst
  BY <1>6 DEF PostureInit, PostureFirst, PosturePages, ListKind
<1>7. ASSUME AgentInit PROVE page = "agent" /\ VisitType /\ AgentFirst
  BY <1>7 DEF AgentInit, AgentFirst, Ask
<1>8. ASSUME RegistryInit PROVE page = "registry" /\ VisitType /\ RegistryFirst
  <2> DEFINE new == {FirstPage(NoFilter), Ask("types", None), Ask("rails", None)}
             records == {[listed |-> l] : l \in {Catalog, <<>>}}
             s == [items |-> <<>>, types |-> NoData, rails |-> {}, loading |-> TRUE, error |-> FALSE, more |-> FALSE, nr |-> 1,
                   filter |-> NoFilter, hasty |-> FALSE]
  <2>1. Mounted("registry", s, new, records)
    BY <1>8 DEF RegistryInit
  <2>2. \A q, r \in new : q.kind = "browse" /\ r.kind = "browse" => q.arg = r.arg
    <3>1. \A k, a : Ask(k, a).kind = k
      BY DEF Ask
    <3>2. QED BY <3>1
  <2>3. DOMAIN s = {"items", "types", "rails", "loading", "error", "more", "nr", "filter", "hasty"} /\ s.loading /\ ~s.error
    OBVIOUS
  <2> HIDE DEF new, s, records
  <2>4. page = "registry" /\ VisitType /\ st = s /\ Once("browse")
    BY <2>1, <2>2
  <2>5. QED BY <2>3, <2>4 DEF RegistryFirst
<1>9. ASSUME SavedInit PROVE page = "saved" /\ VisitType /\ SavedFirst
  BY <1>9 DEF SavedInit, SavedFirst
<1>10. ASSUME AdminRegistryInit PROVE page = "adminRegistry" /\ VisitType /\ AdminRegistryFirst
  <2> DEFINE new == ListAndPanels(NoQuery) \cup Load({"categories"})
             s(focus) == [rows |-> <<>>, query |-> NoQuery, shown |-> None, loading |-> TRUE, panels |-> None,
                          busy |-> None, outcome |-> None, bulk |-> NoBulk, focus |-> focus,
                          categories |-> NoData, naming |-> FALSE, saving |-> None]
  <2>1. PICK focus, records : Mounted("adminRegistry", s(focus), new, records)
    BY <1>10 DEF AdminRegistryInit
  <2>2. ASSUME NEW k \in {"list", "panels", "categories"}, NEW q \in new, NEW r \in new, q.kind = k, r.kind = k PROVE q.arg = r.arg
    <3>1. Ask("list", NoQuery).kind = "list" /\ Ask("panels", None).kind = "panels"
      BY DEF Ask
    <3>2. \A x \in Load({"categories"}) : x.kind = "categories" /\ x.arg = None
      BY LoadFacts
    <3>3. QED BY <2>2, <3>1, <3>2 DEF ListAndPanels
  <2>3. /\ DOMAIN s(focus) = AdminFields /\ s(focus).query = NoQuery /\ s(focus).shown = None /\ s(focus).loading
        /\ s(focus).panels = None /\ s(focus).categories = NoData
    BY DEF AdminFields
  <2> HIDE DEF new, s
  <2>4. page = "adminRegistry" /\ VisitType /\ st = s(focus) /\ Once("list") /\ Once("panels") /\ Once("categories")
    BY <2>1, <2>2
  <2>5. NoQuery \in Queries
    BY DEF NoQuery, Queries
  <2>6. QED BY <2>3, <2>4, <2>5 DEF AdminRegistryFirst
<1>11. ASSUME StatusInit PROVE page = "status" /\ VisitType /\ StatusFirst
  BY <1>11 DEF StatusInit, StatusFirst, Ask
<1>12. ASSUME \/ OnboardingInit \/ CardInit \/ PricingInit \/ ItemInit \/ SubmitInit \/ UsageInit \/ NewItemInit
              \/ EditorInit \/ GateInit \/ FilterInit \/ UserInit \/ ShellInit
       PROVE  VisitType /\ page \notin EmptyPages
  <2>1. \A p, s, new, records : Mounted(p, s, new, records) => page = p /\ VisitType
    OBVIOUS
  <2>2. CASE OnboardingInit BY <2>1, <2>2 DEF OnboardingInit, EmptyPages, PosturePages
  <2>3. CASE CardInit BY <2>1, <2>3 DEF CardInit, EmptyPages, PosturePages
  <2>4. CASE PricingInit BY <2>1, <2>4 DEF PricingInit, EmptyPages, PosturePages
  <2>5. CASE ItemInit BY <2>1, <2>5 DEF ItemInit, EmptyPages, PosturePages
  <2>6. CASE SubmitInit BY <2>1, <2>6 DEF SubmitInit, EmptyPages, PosturePages
  <2>7. CASE UsageInit BY <2>1, <2>7 DEF UsageInit, EmptyPages, PosturePages
  <2>8. CASE NewItemInit BY <2>1, <2>8 DEF NewItemInit, EmptyPages, PosturePages
  <2>9. CASE EditorInit BY <2>1, <2>9 DEF EditorInit, EmptyPages, PosturePages
  <2>10. CASE GateInit BY <2>1, <2>10 DEF GateInit, EmptyPages, PosturePages
  <2>11. CASE FilterInit BY <2>1, <2>11 DEF FilterInit, FilterPages, EmptyPages, PosturePages
  <2>12. CASE UserInit BY <2>1, <2>12 DEF UserInit, EmptyPages, PosturePages
  <2>13. CASE ShellInit BY <2>1, <2>13 DEF ShellInit, EmptyPages, PosturePages
  <2>14. QED BY <1>12, <2>2, <2>3, <2>4, <2>5, <2>6, <2>7, <2>8, <2>9, <2>10, <2>11, <2>12, <2>13
<1> DEFINE other == \/ OnboardingInit \/ CardInit \/ PricingInit \/ ItemInit \/ SubmitInit \/ UsageInit \/ NewItemInit
                    \/ EditorInit \/ GateInit \/ FilterInit \/ UserInit \/ ShellInit
<1>13. ASSUME Init
       PROVE  \/ KeysInit \/ ProvidersInit \/ PickerInit \/ BillingInit \/ DashboardInit \/ PostureInit \/ AgentInit
              \/ RegistryInit \/ SavedInit \/ AdminRegistryInit \/ StatusInit \/ other
  BY <1>13 DEF Init
<1>14. other => FirstInv
  BY <1>12, FirstInvOthers
<1> HIDE DEF other
<1>15. QED
  BY <1>1, <1>2, <1>3, <1>4, <1>5, <1>6, <1>7, <1>8, <1>9, <1>10, <1>11, <1>13, <1>14 DEF FirstInv, PosturePages

LEMMA FirstInvNext == FirstInv /\ [Next]_vars => FirstInv'
<1> SUFFICES ASSUME FirstInv, [Next]_vars PROVE FirstInv'
  OBVIOUS
<1>1. page' = page /\ VisitType'
  BY Steps DEF FirstInv
<1>2. page = "keys" => KeysFirst'
  BY KeysAsks DEF FirstInv
<1>3. page = "providers" => ProvidersFirst'
  BY ProvidersAsks DEF FirstInv
<1>4. page = "picker" => PickerFirst'
  BY PickerAsks DEF FirstInv
<1>5. page = "billing" => BillingFirst'
  BY BillingAsks DEF FirstInv
<1>6. page = "dashboard" => DashboardFirst'
  BY DashboardAsks DEF FirstInv
<1>7. page \in PosturePages => PostureFirst'
  BY <1>1, PostureAsks DEF FirstInv
<1>8. page = "agent" => AgentFirst'
  BY AgentAsks DEF FirstInv
<1>9. page = "registry" => RegistryFirst'
  BY RegistryAsks DEF FirstInv
<1>10. page = "saved" => SavedFirst'
  BY SavedAsks DEF FirstInv
<1>11. page = "adminRegistry" => AdminRegistryFirst'
  BY AdminRegistryAsks DEF FirstInv
<1>12. page = "status" => StatusFirst'
  BY StatusAsks DEF FirstInv
<1>13. QED
  BY <1>1, <1>2, <1>3, <1>4, <1>5, <1>6, <1>7, <1>8, <1>9, <1>10, <1>11, <1>12 DEF FirstInv

LEMMA FirstInvEarns == FirstInv => EmptyIsEarned
<1> SUFFICES ASSUME FirstInv, ~overtaken, NEW c \in Requests, c.id = 1
             PROVE  /\ page = "keys" /\ c.kind = "keys" => ~KeysEmpty
                    /\ page = "providers" => ~ProvidersEmpty
                    /\ page = "picker" => ~PickerEmpty
                    /\ page = "billing" /\ c.kind = "payments" => ~BillingEmpty
                    /\ page = "dashboard" /\ c.kind = "scans" => ~DashboardEmpty
                    /\ page \in PosturePages /\ c.kind = ListKind[page] => ~SaysNone
                    /\ page = "agent" => ~TabEmpty
                    /\ page = "registry" /\ c.kind = "browse" => ~RegistryEmpty
                    /\ page = "saved" => ~SavedEmpty
                    /\ page = "adminRegistry" /\ c.kind = "categories" => ~NoCategories
                    /\ page = "adminRegistry" /\ c.kind = "list" => ~NoItems
                    /\ page = "adminRegistry" /\ c.kind = "panels" /\ FirstListAwaited => ~RegistryThere
                    /\ page = "status" /\ c.kind = "history" => ~NothingRecorded
  BY DEF EmptyIsEarned
<1>1. c \in Firsts /\ NoData # {} /\ NoData # <<>>
  BY MarksAssumption DEF Firsts, Marks
<1>2. page = "keys" /\ c.kind = "keys" => ~KeysEmpty
  BY <1>1 DEF FirstInv, KeysFirst, KeysEmpty
<1>3. page = "providers" => ~ProvidersEmpty
  BY <1>1 DEF FirstInv, ProvidersFirst, ProvidersEmpty
<1>4. page = "picker" => ~PickerEmpty
  BY <1>1 DEF FirstInv, PickerFirst, PickerEmpty, PickerReady
<1>5. page = "billing" /\ c.kind = "payments" => ~BillingEmpty
  BY <1>1 DEF FirstInv, BillingFirst, BillingEmpty
<1>6. page = "dashboard" /\ c.kind = "scans" => ~DashboardEmpty
  BY <1>1 DEF FirstInv, DashboardFirst, DashboardEmpty, FirstUse
<1>7. page \in PosturePages /\ c.kind = ListKind[page] => ~SaysNone
  BY <1>1 DEF FirstInv, PostureFirst, SaysNone
<1>8. page = "agent" => ~TabEmpty
  BY <1>1 DEF FirstInv, AgentFirst, TabEmpty, AgentShown
<1>9. page = "registry" /\ c.kind = "browse" => ~RegistryEmpty
  BY <1>1 DEF FirstInv, RegistryFirst, RegistryEmpty, RegistryView
<1>10. page = "saved" => ~SavedEmpty
  BY <1>1 DEF FirstInv, SavedFirst, SavedEmpty
<1>11. page = "adminRegistry" /\ c.kind = "categories" => ~NoCategories
  BY <1>1 DEF FirstInv, AdminRegistryFirst, NoCategories
<1>12. page = "status" /\ c.kind = "history" => ~NothingRecorded
  BY <1>1 DEF FirstInv, StatusFirst, NothingRecorded
<1>13. page = "adminRegistry" /\ c.kind = "list" => ~NoItems
  <2>1. None \notin Queries
    BY AdminAssumption DEF Marks
  <2>2. QED BY <1>1, <2>1 DEF FirstInv, AdminRegistryFirst, NoItems, ListLoading
<1>14. page = "adminRegistry" /\ c.kind = "panels" /\ FirstListAwaited => ~RegistryThere
  <2>1. FirstListAwaited => \E d \in Firsts : d.kind = "list"
    BY DEF FirstListAwaited, Firsts
  <2>2. QED BY <1>1, <2>1 DEF FirstInv, AdminRegistryFirst, RegistryThere
<1>15. QED BY <1>2, <1>3, <1>4, <1>5, <1>6, <1>7, <1>8, <1>9, <1>10, <1>11, <1>12, <1>13, <1>14

\* Nobody is told that there is nothing while the first answer is on its way and
\* nothing failed, but for the list and the panels of the registry's
\* administration, of which the one that has not come may look empty.
THEOREM EmptySafety == Spec => []EmptyIsEarned
<1>1. Spec => []FirstInv
  BY FirstInvInit, FirstInvNext, PTL DEF Spec
<1>2. QED BY <1>1, FirstInvEarns, PTL

-----------------------------------------------------------------------------
(* The marketplace *)

Sifted == Results(srv.listed, Query(st.filter))

LEMMA MatchingSeq ==
  ASSUME NEW listed \in {Catalog, <<>>}, NEW f, NEW n
  PROVE  Matching(listed, f, n) \in Seq(DOMAIN TypeOf)
<1>1. <<>> \in Seq(DOMAIN TypeOf)
  OBVIOUS
<1>2. CASE n \in DOMAIN listed
  <2>1. listed[n] \in {"s1", "p1", "s2", "s3"}
    BY <1>2 DEF Catalog
  <2>2. listed[n] \in DOMAIN TypeOf
    BY <2>1 DEF TypeOf
  <2>3. <<listed[n]>> \in Seq(DOMAIN TypeOf)
    BY <2>2
  <2>4. Matching(listed, f, n) \in {<<>>, <<listed[n]>>}
    BY DEF Matching
  <2>5. QED BY <1>1, <2>3, <2>4
<1>3. CASE n \notin DOMAIN listed
  BY <1>1, <1>3 DEF Matching
<1>4. QED BY <1>2, <1>3

LEMMA Joined ==
  ASSUME NEW S, NEW a \in Seq(S), NEW b \in Seq(S), NEW c \in Seq(S), NEW d \in Seq(S)
  PROVE  (a \o b \o c \o d) \in Seq(S) /\ (a \o b \o c \o d = <<>> => a = <<>>)
<1>1. (a \o b) \in Seq(S) /\ Len(a \o b) = Len(a) + Len(b)
  OBVIOUS
<1>2. ((a \o b) \o c) \in Seq(S) /\ Len((a \o b) \o c) = Len(a \o b) + Len(c)
  BY <1>1
<1>3. (((a \o b) \o c) \o d) \in Seq(S) /\ Len(((a \o b) \o c) \o d) = Len((a \o b) \o c) + Len(d)
  BY <1>2
<1>4. a # <<>> => Len(a) > 0
  OBVIOUS
<1>5. Len(a) \in Nat /\ Len(b) \in Nat /\ Len(c) \in Nat /\ Len(d) \in Nat
  OBVIOUS
<1>6. a # <<>> => Len(((a \o b) \o c) \o d) > 0
  BY <1>1, <1>2, <1>3, <1>4, <1>5
<1>7. QED BY <1>3, <1>6

LEMMA ResultsSeq ==
  ASSUME NEW listed \in {Catalog, <<>>}, NEW f
  PROVE  Results(listed, f) \in Seq(DOMAIN TypeOf)
BY MatchingSeq, Joined DEF Results

\* Nothing matches no filter only where nothing is listed.
LEMMA ResultsAll ==
  ASSUME NEW listed \in {Catalog, <<>>}, Results(listed, Query(NoFilter)) = <<>>
  PROVE  listed = <<>>
<1>1. Query(NoFilter).type = None /\ Query(NoFilter).price = None
  BY DEF Query, NoFilter
<1>2. Matching(listed, Query(NoFilter), 1) = <<>>
  BY MatchingSeq, Joined DEF Results
<1>3. CASE listed = Catalog
  <2>1. 1 \in DOMAIN listed
    BY <1>3 DEF Catalog
  <2>2. Matching(listed, Query(NoFilter), 1) = <<listed[1]>>
    BY <1>1, <2>1 DEF Matching
  <2>3. QED BY <1>2, <2>2
<1>4. QED BY <1>3

LEMMA PageFacts ==
  ASSUME NEW r \in Seq(DOMAIN TypeOf), NEW n \in Nat \ {0}
  PROVE  /\ PageOf(r, n) \in PagesOf /\ PageOf(r, n).nr = n /\ (PageOf(r, n).more <=> Len(r) > n)
         /\ n <= Len(r) => PageOf(r, n).items = <<r[n]>>
         /\ n > Len(r) => PageOf(r, n).items = <<>>
<1>1. n <= Len(r) => r[n] \in DOMAIN TypeOf
  OBVIOUS
<1>2. (Len(r) > n) \in BOOLEAN
  OBVIOUS
<1>3. PageOf(r, n).items \in {<<>>} \cup {<<i>> : i \in DOMAIN TypeOf}
  BY <1>1 DEF PageOf
<1>4. PageOf(r, n).nr = n /\ (PageOf(r, n).more <=> Len(r) > n)
  BY DEF PageOf
<1>5. PageOf(r, n) \in PagesOf
  BY <1>2, <1>3 DEF PageOf, PagesOf
<1>6. QED BY <1>4, <1>5 DEF PageOf

\* The pages that have come make a list.
Upto(r, n) == [m \in 1..(IF Len(r) < n THEN Len(r) ELSE n) |-> r[m]]

LEMMA FirstShown == ASSUME NEW r \in Seq(DOMAIN TypeOf) PROVE PageOf(r, 1).items = Upto(r, 1)
<1>1. CASE Len(r) < 1
  <2>1. PageOf(r, 1).items = <<>>
    BY <1>1, PageFacts
  <2>2. Len(r) = 0
    BY <1>1
  <2>3. Upto(r, 1) = <<>>
    BY <2>2 DEF Upto
  <2>4. QED BY <2>1, <2>3
<1>2. CASE ~(Len(r) < 1)
  <2>1. PageOf(r, 1).items = <<r[1]>>
    BY <1>2, PageFacts
  <2>2. Upto(r, 1) = [m \in 1..1 |-> r[m]]
    BY <1>2 DEF Upto
  <2>3. QED BY <2>1, <2>2
<1>3. QED BY <1>1, <1>2

LEMMA NextShown ==
  ASSUME NEW r \in Seq(DOMAIN TypeOf), NEW n \in Nat \ {0}, Len(r) > n
  PROVE  Upto(r, n) \o PageOf(r, n + 1).items = Upto(r, n + 1)
<1>1. PageOf(r, n + 1).items = <<r[n + 1]>>
  BY PageFacts
<1>2. Upto(r, n) = [m \in 1..n |-> r[m]] /\ Upto(r, n + 1) = [m \in 1..(n + 1) |-> r[m]]
  BY DEF Upto
<1> DEFINE s == [m \in 1..n |-> r[m]]
<1>3. s \in Seq(DOMAIN TypeOf) /\ Len(s) = n
  OBVIOUS
<1>4. r[n + 1] \in DOMAIN TypeOf
  OBVIOUS
<1>5. s \o <<r[n + 1]>> = [m \in 1..(n + 1) |-> r[m]]
  OBVIOUS
<1>6. QED BY <1>1, <1>2, <1>5

BrowseAsk(f) == [filter |-> Query(f), nr |-> 1, append |-> FALSE, button |-> FALSE]
MoreAsk(f, n) == [filter |-> Query(f), nr |-> n, append |-> TRUE, button |-> TRUE]

\* Nothing is on its way that will replace the list: it is as long as was asked.
Steady ==
  /\ st.nr \in Nat \ {0} /\ st.items = Upto(Sifted, st.nr) /\ (st.more <=> Len(Sifted) > st.nr)
  /\ \A c \in Requests : c.kind = "browse" =>
       /\ c.arg = MoreAsk(st.filter, st.nr + 1) /\ calls[c] \in {Waiting, PageOf(Sifted, st.nr + 1)}
       /\ Len(Sifted) > st.nr

\* At most one page that was asked for by the button is under way, and after it
\* at most one that follows the filter.
Paged ==
  /\ st.error = FALSE
  /\ \A c \in Requests : c.kind = "browse" =>
       /\ c.arg.button \in BOOLEAN /\ c.arg.nr \in Nat \ {0} /\ calls[c] \in {Waiting} \cup PagesOf
       /\ c.arg.button => st.loading
       /\ ~c.arg.button => c.arg = BrowseAsk(st.filter) /\ calls[c] \in {Waiting, PageOf(Sifted, 1)}
  /\ \A c, d \in Requests : c.kind = "browse" /\ d.kind = "browse" =>
       /\ c.arg.button = d.arg.button => c = d
       /\ c.arg.button /\ ~d.arg.button => c.id < d.id
  /\ st.loading => \E c \in Requests : c.kind = "browse"
  /\ Following # {} \/ Steady

RegistryType ==
  /\ DOMAIN st = {"items", "types", "rails", "loading", "error", "more", "nr", "filter", "hasty"}
  /\ DOMAIN srv = {"listed"} /\ srv.listed \in {Catalog, <<>>}
  /\ \A c \in Requests : c.kind \in {"browse", "types", "rails"}

\* The list is as many pages as were asked for, or a page that follows the
\* filter is on its way. A reader who was hasty may have broken that.
RegistryCore == RegistryType /\ (st.hasty \/ Paged)

\* The steps that this page takes while nobody else does anything.
LEMMA RegistrySteps ==
  ASSUME page = "registry", RegistryCore, Inside
  PROVE  \/ RegistryClick
         \/ \E c \in Requests : RegistryServe(c) \/ (Answer(c) # Waiting /\ RegistryArrive(c))
<1>1. \A c \in Requests : c.kind \in {"browse", "types", "rails"}
  BY DEF RegistryCore, RegistryType
<1>2. \A c : c.kind \in {"browse", "types", "rails"} => ~ServeRead(c)
  BY DEF RegistryCore, RegistryType, ServeRead
<1>3. \/ RegistryClick
      \/ \E c \in Requests : ServeRead(c) \/ RegistryServe(c) \/ (Answer(c) # Waiting /\ RegistryArrive(c))
  BY <1>1 DEF Inside, Click, ServeSome, Serve, ArriveSome, Arrive, TimerSome, PosturePages, FilterPages,
       InstallUrlServed, DetailsServe, ReportServe, AgentServe, SubmitServe, NewItemServe
<1>4. QED BY <1>1, <1>2, <1>3

\* Every step of a calm visit keeps it so.
LEMMA RegistryCalm ==
  ASSUME page = "registry", VisitType, RegistryCore, Inside, ~overtaken'
  PROVE  RegistryCore'
<1>1. /\ DOMAIN st = {"items", "types", "rails", "loading", "error", "more", "nr", "filter", "hasty"}
      /\ DOMAIN srv = {"listed"} /\ srv.listed \in {Catalog, <<>>}
      /\ \A c \in Requests : c.kind \in {"browse", "types", "rails"}
  BY DEF RegistryCore, RegistryType
<1>2. Sifted \in Seq(DOMAIN TypeOf)
  BY <1>1, ResultsSeq DEF Sifted
<1>3. (\A o \in Requests : o.id \in Nat /\ o.id <= issued) /\ issued \in Nat
  BY DEF VisitType
<1>4. ASSUME NEW kept \in SUBSET Requests, NEW new, Sends(kept, new), srv' = srv, DOMAIN st' = DOMAIN st,
             \A r \in new : r.kind \in {"browse", "types", "rails"}
      PROVE  RegistryType'
  <2>1. \A o \in New(new) : o.kind \in {"browse", "types", "rails"}
    BY <1>4, NewFacts
  <2>2. QED BY <1>1, <1>4, <2>1 DEF RegistryType, Sends
\* Another filter: the page that followed the old one is not waited for.
<1>5. ASSUME NEW f, Choose(f)
      PROVE  RegistryCore'
  <2> DEFINE s == [st EXCEPT !.filter = f]
             r == FirstPage(f)
             kept == Requests \ Following
  <2>1. r.kind = "browse" /\ r.arg = BrowseAsk(f)
    BY DEF FirstPage, Ask, BrowseAsk
  <2>2. Acts(s, Following, {r})
    BY <1>5 DEF Choose
  <2>3. DOMAIN s = DOMAIN st /\ s.filter = f /\ s.hasty = st.hasty /\ s.error = st.error /\ s.loading = st.loading
    BY <1>1
  <2> HIDE DEF s, r
  <2>4. Sends(kept, {r}) /\ srv' = srv /\ st' = s
    BY <2>2, ActsFacts
  <2>5. kept \in SUBSET Requests /\ \A o \in kept : o.kind = "browse" => o.arg.button
    BY DEF Following, Asking
  <2> HIDE DEF kept
  <2>6. RegistryType'
    BY <1>4, <2>1, <2>3, <2>4, <2>5
  <2>7. CASE Paged
    <3>1. ASSUME NEW o \in New({r})
          PROVE  o.id = issued + 1 /\ Formed(o) /\ o.kind = "browse" /\ o.arg = BrowseAsk(f)
      <4>1. \E q \in {r} : o.kind = q.kind /\ o.arg = q.arg
        BY NewFacts
      <4>2. QED BY <2>1, <4>1, NewFacts
    <3>2. \E o : o \in New({r})
      BY DEF New, Numbered
    <3>3. Requests' = kept \cup New({r}) /\ (\A o \in kept : calls'[o] = calls[o]) /\ \A o \in New({r}) : calls'[o] = Waiting
      BY <2>4 DEF Sends
    <3>4. ~BrowseAsk(f).button /\ BrowseAsk(f).button \in BOOLEAN /\ BrowseAsk(f).nr \in Nat \ {0}
      BY DEF BrowseAsk
    <3>5. \A o \in New({r}) : ~o.arg.button /\ o.arg.button \in BOOLEAN /\ o.arg.nr \in Nat \ {0}
      BY <3>1, <3>4
    <3>6. \A o, p \in New({r}) : o = p
      BY <3>1 DEF Formed
    <3>7. Following' # {}
      BY <3>1, <3>2, <3>3, <3>5 DEF Following, Asking
    <3>8. ASSUME NEW c \in Requests', c.kind = "browse"
          PROVE  /\ c.arg.button \in BOOLEAN /\ c.arg.nr \in Nat \ {0} /\ calls'[c] \in {Waiting} \cup PagesOf
                 /\ c.arg.button => st'.loading
                 /\ ~c.arg.button => c.arg = BrowseAsk(f) /\ calls'[c] = Waiting
      <4>1. CASE c \in kept
        BY <2>3, <2>4, <2>5, <2>7, <3>3, <3>8, <4>1 DEF Paged
      <4>2. CASE c \in New({r})
        BY <3>1, <3>3, <3>5, <4>2
      <4>3. QED BY <3>3, <3>8, <4>1, <4>2
    <3>9. ASSUME NEW c \in Requests', NEW d \in Requests', c.kind = "browse", d.kind = "browse"
          PROVE  /\ c.arg.button = d.arg.button => c = d
                 /\ c.arg.button /\ ~d.arg.button => c.id < d.id
      <4>1. CASE c \in kept /\ d \in kept
        BY <2>5, <2>7, <3>9, <4>1 DEF Paged
      <4>2. CASE c \in kept /\ d \in New({r})
        <5>1. c.arg.button /\ ~d.arg.button
          BY <2>5, <3>5, <3>9, <4>2
        <5>2. c.id < d.id
          <6>1. c.id \in Nat /\ c.id <= issued /\ d.id = issued + 1 /\ issued \in Nat
            BY <1>3, <2>5, <3>1, <4>2
          <6>2. QED BY <6>1
        <5>3. QED BY <5>1, <5>2
      <4>3. CASE c \in New({r}) /\ d \in kept
        BY <2>5, <3>5, <3>9, <4>3
      <4>4. CASE c \in New({r}) /\ d \in New({r})
        BY <3>5, <3>6, <4>4
      <4>5. QED BY <3>3, <3>9, <4>1, <4>2, <4>3, <4>4
    <3>10. st'.error = FALSE /\ \E c \in Requests' : c.kind = "browse"
      BY <2>3, <2>4, <2>7, <3>1, <3>2, <3>3 DEF Paged
    <3>11. st'.filter = f
      BY <2>3, <2>4
    <3>12. Paged'
      BY <3>7, <3>8, <3>9, <3>10, <3>11 DEF Paged
    <3>13. QED BY <2>6, <3>12 DEF RegistryCore
  <2>8. QED BY <2>3, <2>4, <2>6, <2>7 DEF RegistryCore
<1>6. ASSUME NEW n, NEW more, LoadMore(n, more), st.error \/ (n = st.nr + 1 /\ more = TRUE /\ st.more /\ ~st.loading)
      PROVE  RegistryCore'
  <2> DEFINE h == st.hasty \/ Following # {}
             s == [st EXCEPT !.loading = TRUE, !.error = FALSE, !.hasty = h]
             r == Button(st.filter, n, more)
  <2>1. Requests \ {} = Requests /\ Requests \in SUBSET Requests
    OBVIOUS
  <2>2. Acts(s, {}, {r})
    BY <1>6 DEF LoadMore
  <2>3. /\ DOMAIN s = DOMAIN st /\ s.filter = st.filter /\ s.error = FALSE /\ s.loading = TRUE /\ s.nr = st.nr
        /\ s.items = st.items /\ s.more = st.more
    BY <1>1
  <2>4. s.hasty = h
    BY <1>1
  <2>5. r.kind = "browse" /\ (more = TRUE => r.arg = MoreAsk(st.filter, n))
    BY DEF Button, Ask, MoreAsk
  <2> HIDE DEF s, r
  <2>6. Sends(Requests, {r}) /\ srv' = srv /\ st' = s
    BY <2>1, <2>2, ActsFacts
  <2>7. RegistryType'
    BY <1>4, <2>1, <2>3, <2>5, <2>6
  <2>8. CASE Paged /\ Following = {}
    <3>1. n = st.nr + 1 /\ more = TRUE /\ st.more /\ ~st.loading
      BY <1>6, <2>8 DEF Paged
    <3>2. Steady /\ \A o \in Requests : o.kind # "browse"
      BY <2>8, <3>1 DEF Paged, Following, Asking
    <3>3. st.nr \in Nat \ {0} /\ Len(Sifted) > st.nr /\ st.items = Upto(Sifted, st.nr)
      BY <3>1, <3>2 DEF Steady
    <3>4. ASSUME NEW o \in New({r})
          PROVE  o.id = issued + 1 /\ Formed(o) /\ o.kind = "browse" /\ o.arg = MoreAsk(st.filter, st.nr + 1)
      <4>1. \E q \in {r} : o.kind = q.kind /\ o.arg = q.arg
        BY NewFacts
      <4>2. QED BY <2>5, <3>1, <4>1, NewFacts
    <3>5. \E o : o \in New({r})
      BY DEF New, Numbered
    <3>6. Requests' = Requests \cup New({r}) /\ \A o \in New({r}) : calls'[o] = Waiting
      BY <2>6 DEF Sends
    <3>7. MoreAsk(st.filter, st.nr + 1).button = TRUE /\ MoreAsk(st.filter, st.nr + 1).nr \in Nat \ {0}
      BY <3>3 DEF MoreAsk
    <3>8. ASSUME NEW c \in Requests', c.kind = "browse"
          PROVE  /\ c \in New({r}) /\ c.arg = MoreAsk(st.filter, st.nr + 1) /\ calls'[c] = Waiting
                 /\ c.arg.button = TRUE /\ c.arg.nr \in Nat \ {0}
      <4>1. c \in New({r})
        BY <3>2, <3>6, <3>8
      <4>2. c.arg = MoreAsk(st.filter, st.nr + 1) /\ calls'[c] = Waiting
        BY <3>4, <3>6, <4>1
      <4>3. QED BY <3>7, <4>1, <4>2
    <3>9. \A c, d \in New({r}) : c = d
      BY <3>4 DEF Formed
    <3>10. Sifted' = Sifted
      BY <2>3, <2>6 DEF Sifted
    <3>11. st'.nr = st.nr /\ st'.items = st.items /\ st'.filter = st.filter /\ st'.more = st.more /\ st'.loading = TRUE /\ st'.error = FALSE
      BY <2>3, <2>6
    <3>12. Steady'
      BY <3>2, <3>3, <3>8, <3>10, <3>11 DEF Steady
    <3>13. \E c \in Requests' : c.kind = "browse"
      BY <3>4, <3>5, <3>6
    <3>14. Paged'
      BY <3>8, <3>9, <3>11, <3>12, <3>13 DEF Paged
    <3>15. QED BY <2>7, <3>14 DEF RegistryCore
  <2>9. CASE st.hasty \/ Following # {}
    BY <2>4, <2>6, <2>7, <2>9 DEF RegistryCore
  <2>10. QED BY <2>8, <2>9 DEF RegistryCore
<1>7. CASE RegistryClick
  BY <1>5, <1>6, <1>7 DEF RegistryClick
\* What is neither a page nor the request for one.
<1>8. ASSUME NEW c \in Requests, NEW s, Takes(c, s, {}, {}), c.kind # "browse", DOMAIN s = DOMAIN st, s.items = st.items,
             s.loading = st.loading, s.error = st.error, s.more = st.more, s.nr = st.nr, s.filter = st.filter, s.hasty = st.hasty
      PROVE  RegistryCore'
  <2> DEFINE kept == Requests \ {c}
  <2>1. (Requests \ {c}) \ {} = kept /\ kept \in SUBSET Requests /\ \A r \in {} : r.kind \in {"browse", "types", "rails"}
    OBVIOUS
  <2>2. Sends(kept, {}) /\ srv' = srv /\ st' = s
    BY <1>8, <2>1, TakesFacts
  <2>3. RegistryType'
    BY <1>4, <1>8, <2>1, <2>2
  <2>4. Requests' = kept /\ \A o \in kept : calls'[o] = calls[o]
    BY <2>2, NumberedNone DEF Sends, New
  <2>5. /\ \A o \in Requests' : o \in Requests /\ calls'[o] = calls[o]
        /\ \A o \in Requests : o.kind = "browse" => o \in Requests'
    BY <1>8, <2>4
  <2>6. Sifted' = Sifted
    BY <1>8, <2>2 DEF Sifted
  <2>7. Following' = Following
    BY <2>5 DEF Following, Asking
  <2>8. Steady => Steady'
    BY <1>8, <2>2, <2>5, <2>6 DEF Steady
  <2>9. Paged => Paged'
    BY <1>8, <2>2, <2>5, <2>6, <2>7, <2>8 DEF Paged
  <2>10. QED BY <1>8, <2>2, <2>3, <2>9 DEF RegistryCore
<1>9. ASSUME NEW c \in Requests, NEW a, Replies(c, a, srv),
             c.kind = "browse" => a = PageOf(Results(srv.listed, c.arg.filter), c.arg.nr)
      PROVE  RegistryCore'
  <2>1. /\ st' = st /\ srv' = srv /\ Requests' = Requests
        /\ calls'[c] = a /\ \A o \in Requests \ {c} : calls'[o] = calls[o]
    BY <1>9, RepliesFacts
  <2>2. RegistryType'
    BY <1>1, <2>1 DEF RegistryType
  <2>3. Sifted' = Sifted /\ Following' = Following
    BY <2>1 DEF Sifted, Following, Asking
  <2>4. CASE c.kind = "browse" /\ Paged
    <3>1. c.arg.nr \in Nat \ {0} /\ a \in PagesOf
      <4>1. c.arg.nr \in Nat \ {0}
        BY <2>4 DEF Paged
      <4>2. Results(srv.listed, c.arg.filter) \in Seq(DOMAIN TypeOf)
        BY <1>1, ResultsSeq
      <4>3. QED BY <1>9, <2>4, <4>1, <4>2, PageFacts
    <3>2. c.arg = BrowseAsk(st.filter) => a = PageOf(Sifted, 1)
      BY <1>9, <2>4 DEF BrowseAsk, Sifted
    <3>3. c.arg = MoreAsk(st.filter, st.nr + 1) => a = PageOf(Sifted, st.nr + 1)
      BY <1>9, <2>4 DEF MoreAsk, Sifted
    <3>4. Steady => Steady'
      BY <2>1, <2>3, <3>3 DEF Steady
    <3>5. Paged'
      BY <2>1, <2>3, <2>4, <3>1, <3>2, <3>4 DEF Paged
    <3>6. QED BY <2>2, <3>5 DEF RegistryCore
  <2>5. CASE c.kind # "browse" /\ Paged
    <3>1. Steady => Steady'
      BY <2>1, <2>3, <2>5 DEF Steady
    <3>2. Paged'
      BY <2>1, <2>3, <2>5, <3>1 DEF Paged
    <3>3. QED BY <2>2, <3>2 DEF RegistryCore
  <2>6. CASE st.hasty
    BY <2>1, <2>2, <2>6 DEF RegistryCore
  <2>7. QED BY <2>4, <2>5, <2>6 DEF RegistryCore
<1>10. ASSUME NEW c \in Requests, Answer(c) # Waiting, PageArrives(c)
       PROVE  RegistryCore'
  <2> DEFINE kept == Requests \ {c}
             e == IF c.arg.button THEN st.error ELSE FALSE
             l == IF c.arg.append THEN st.items \o Answer(c).items ELSE Answer(c).items
             x == [st EXCEPT !.error = TRUE, !.loading = FALSE]
             y == [st EXCEPT !.error = e, !.items = l, !.more = Answer(c).more, !.nr = Answer(c).nr, !.loading = FALSE]
  <2>1. c.kind = "browse" /\ IF Threw(c) THEN Takes(c, x, {}, {}) ELSE Takes(c, y, {}, {})
    BY <1>10 DEF PageArrives
  <2>2. DOMAIN x = DOMAIN st /\ x.hasty = st.hasty
    BY <1>1
  <2>3. /\ DOMAIN y = DOMAIN st /\ y.hasty = st.hasty /\ y.filter = st.filter /\ y.error = e /\ y.items = l
        /\ y.more = Answer(c).more /\ y.nr = Answer(c).nr /\ y.loading = FALSE
    BY <1>1
  <2> HIDE DEF x, y
  <2>4. (Requests \ {c}) \ {} = kept /\ kept \in SUBSET Requests /\ \A r \in {} : r.kind \in {"browse", "types", "rails"}
    OBVIOUS
  <2>5. /\ Sends(kept, {}) /\ srv' = srv /\ st' \in {x, y} /\ (~Threw(c) => st' = y)
        /\ \A o \in Requests : o.kind = "browse" => ~(o.id < c.id)
    <3>1. Requests \ {} = Requests
      OBVIOUS
    <3>2. QED BY <2>1, <2>4, <3>1, TakesFacts
  <2>6. RegistryType'
    BY <1>4, <2>2, <2>3, <2>4, <2>5
  <2>7. CASE st.hasty
    BY <2>2, <2>3, <2>5, <2>6, <2>7 DEF RegistryCore
  <2>8. CASE Paged
    <3>1. Answer(c) \in PagesOf /\ c.arg.button \in BOOLEAN /\ st.error = FALSE
      BY <1>10, <2>1, <2>8 DEF Paged, Answer
    <3>2. ~Threw(c)
      BY <3>1, PagesAssumption DEF Threw, Marks
    <3>3. st' = y /\ e = FALSE
      BY <2>5, <3>1, <3>2
    <3>4. Requests' = kept /\ \A o \in kept : calls'[o] = calls[o]
      BY <2>5, NumberedNone DEF Sends, New
    <3>5. Sifted' = Sifted
      BY <2>3, <2>5, <3>3 DEF Sifted
    <3>6. CASE ~c.arg.button
      <4>1. /\ c.arg = BrowseAsk(st.filter) /\ Answer(c) = PageOf(Sifted, 1)
            /\ \A o \in Requests : o.kind = "browse" => o = c
        <5>1. c.arg = BrowseAsk(st.filter) /\ Answer(c) = PageOf(Sifted, 1)
          BY <1>10, <2>1, <2>8, <3>6 DEF Paged, Answer
        <5>2. ASSUME NEW o \in Requests, o.kind = "browse" PROVE o = c
          <6>1. o.arg.button \in BOOLEAN
            BY <2>8, <5>2 DEF Paged
          <6>2. CASE o.arg.button
            BY <2>1, <2>5, <2>8, <3>6, <5>2, <6>2 DEF Paged
          <6>3. CASE ~o.arg.button
            BY <2>1, <2>8, <3>1, <3>6, <5>2, <6>1, <6>3 DEF Paged
          <6>4. QED BY <6>2, <6>3
        <5>3. QED BY <5>1, <5>2
      <4>2. c.arg.append = FALSE
        BY <4>1 DEF BrowseAsk
      <4>3. st'.items = Upto(Sifted, 1) /\ st'.nr = 1 /\ (st'.more <=> Len(Sifted) > 1) /\ st'.error = FALSE /\ st'.loading = FALSE
        <5>1. st'.items = PageOf(Sifted, 1).items
          BY <2>3, <3>3, <4>1, <4>2
        <5>2. PageOf(Sifted, 1).nr = 1 /\ (PageOf(Sifted, 1).more <=> Len(Sifted) > 1)
          BY <1>2, PageFacts
        <5>3. QED BY <1>2, <2>3, <3>3, <4>1, <5>1, <5>2, FirstShown
      <4>4. \A o \in Requests' : o.kind # "browse"
        BY <3>4, <4>1
      <4>5. Steady'
        BY <3>5, <4>3, <4>4 DEF Steady
      <4>6. Paged'
        BY <4>3, <4>4, <4>5 DEF Paged
      <4>7. QED BY <2>6, <4>6 DEF RegistryCore
    <3>7. CASE c.arg.button /\ Following # {}
      <4>1. \A o \in kept : o.kind = "browse" => ~o.arg.button
        BY <2>1, <2>8, <3>7 DEF Paged
      <4>2. Following' # {} /\ \E o \in Requests' : o.kind = "browse"
        BY <3>4, <3>7 DEF Following, Asking
      <4>3. st'.error = FALSE /\ st'.loading = FALSE /\ st'.filter = st.filter
        BY <2>3, <3>3
      <4>4. Paged'
        BY <2>8, <3>4, <3>5, <4>1, <4>2, <4>3 DEF Paged
      <4>5. QED BY <2>6, <4>4 DEF RegistryCore
    <3>8. CASE c.arg.button /\ Following = {}
      <4>1. Steady /\ \A o \in Requests : o.kind = "browse" => o.arg.button
        BY <2>8, <3>8 DEF Paged, Following, Asking
      <4>2. \A o \in Requests : o.kind = "browse" => o = c
        BY <2>1, <2>8, <3>8, <4>1 DEF Paged
      <4>3. /\ st.nr \in Nat \ {0} /\ st.items = Upto(Sifted, st.nr) /\ Len(Sifted) > st.nr
            /\ c.arg = MoreAsk(st.filter, st.nr + 1) /\ Answer(c) = PageOf(Sifted, st.nr + 1)
        BY <1>10, <2>1, <4>1 DEF Steady, Answer
      <4>4. c.arg.append = TRUE /\ st.nr + 1 \in Nat \ {0}
        BY <4>3 DEF MoreAsk
      <4>5. /\ st'.items = st.items \o PageOf(Sifted, st.nr + 1).items
            /\ st'.nr = PageOf(Sifted, st.nr + 1).nr /\ st'.more = PageOf(Sifted, st.nr + 1).more
        BY <2>3, <3>3, <4>3, <4>4
      <4>6. st'.nr = st.nr + 1 /\ (st'.more <=> Len(Sifted) > st.nr + 1)
        BY <1>2, <4>4, <4>5, PageFacts
      <4>7. st'.items = Upto(Sifted, st.nr + 1)
        BY <1>2, <4>3, <4>5, NextShown
      <4>8. \A o \in Requests' : o.kind # "browse"
        BY <3>4, <4>2
      <4>9. Steady'
        BY <3>5, <4>4, <4>6, <4>7, <4>8 DEF Steady
      <4>10. st'.error = FALSE /\ st'.loading = FALSE
        BY <2>3, <3>3
      <4>11. Paged'
        BY <4>8, <4>9, <4>10 DEF Paged
      <4>12. QED BY <2>6, <4>11 DEF RegistryCore
    <3>9. QED BY <3>1, <3>6, <3>7, <3>8
  <2>9. QED BY <2>7, <2>8 DEF RegistryCore
<1>11. ASSUME NEW c \in Requests, RegistryServe(c)
       PROVE  RegistryCore'
  <2>1. CASE c.kind = "browse" /\ Replies(c, PageOf(Results(srv.listed, c.arg.filter), c.arg.nr), srv)
    BY <1>9, <2>1
  <2>2. CASE \E a : c.kind # "browse" /\ Replies(c, a, srv)
    BY <1>9, <2>2
  <2>3. QED BY <1>11, <2>1, <2>2 DEF RegistryServe
<1>12. ASSUME NEW c \in Requests, FacetsArrive(c)
       PROVE  RegistryCore'
  <2>1. ASSUME NEW a, c.kind # "browse", Takes(c, [st EXCEPT !.types = a], {}, {}) \/ Takes(c, [st EXCEPT !.rails = a], {}, {})
        PROVE  RegistryCore'
    <3> DEFINE x == [st EXCEPT !.types = a]
               y == [st EXCEPT !.rails = a]
    <3>1. /\ DOMAIN x = DOMAIN st /\ x.items = st.items /\ x.loading = st.loading /\ x.error = st.error
          /\ x.more = st.more /\ x.nr = st.nr /\ x.filter = st.filter /\ x.hasty = st.hasty
      BY <1>1
    <3>2. /\ DOMAIN y = DOMAIN st /\ y.items = st.items /\ y.loading = st.loading /\ y.error = st.error
          /\ y.more = st.more /\ y.nr = st.nr /\ y.filter = st.filter /\ y.hasty = st.hasty
      BY <1>1
    <3>3. Takes(c, x, {}, {}) \/ Takes(c, y, {}, {})
      BY <2>1
    <3> HIDE DEF x, y
    <3>4. QED BY <1>8, <2>1, <3>1, <3>2, <3>3
  <2>2. CASE c.kind # "browse" /\ Takes(c, st, {}, {})
    BY <1>8, <2>2
  <2>3. QED BY <1>12, <2>1, <2>2 DEF FacetsArrive
<1>13. QED BY <1>7, <1>10, <1>11, <1>12, RegistrySteps DEF RegistryArrive

\* It is so when the page is mounted.
LEMMA RegistryStart == RegistryInit => page = "registry" /\ RegistryCore
<1> SUFFICES ASSUME RegistryInit PROVE page = "registry" /\ RegistryCore
  OBVIOUS
<1> DEFINE s == [items |-> <<>>, types |-> NoData, rails |-> {}, loading |-> TRUE, error |-> FALSE, more |-> FALSE, nr |-> 1,
                 filter |-> NoFilter, hasty |-> FALSE]
           new == {FirstPage(NoFilter), Ask("types", None), Ask("rails", None)}
           records == {[listed |-> l] : l \in {Catalog, <<>>}}
<1>1. Mounted("registry", s, new, records)
  BY DEF RegistryInit
<1>2. /\ DOMAIN s = {"items", "types", "rails", "loading", "error", "more", "nr", "filter", "hasty"}
      /\ s.error = FALSE /\ s.filter = NoFilter
  OBVIOUS
<1>3. \A r \in records : DOMAIN r = {"listed"} /\ r.listed \in {Catalog, <<>>}
  OBVIOUS
<1>4. /\ \A r \in new : r.kind \in {"browse", "types", "rails"} /\ (r.kind = "browse" => r.arg = BrowseAsk(NoFilter))
      /\ \E r \in new : r.kind = "browse"
  BY DEF FirstPage, Ask, BrowseAsk
<1> HIDE DEF s, new, records
<1>5. \A q, r \in new : q.kind = "browse" /\ r.kind = "browse" => q.arg = r.arg
  BY <1>4
<1>6. /\ page = "registry" /\ st = s /\ srv \in records
      /\ \A o \in Requests : \E r \in new : o.kind = r.kind /\ o.arg = r.arg
      /\ Alone(calls, "browse", Waiting) /\ Sought(calls, "browse")
  BY <1>1, <1>4, <1>5, MountedAlone
<1>7. \A o \in Requests : o.kind \in {"browse", "types", "rails"} /\ (o.kind = "browse" => o.arg = BrowseAsk(NoFilter) /\ calls[o] = Waiting)
  BY <1>4, <1>6 DEF Alone, Requests
<1>8. ~BrowseAsk(NoFilter).button /\ BrowseAsk(NoFilter).button \in BOOLEAN /\ BrowseAsk(NoFilter).nr \in Nat \ {0}
  BY DEF BrowseAsk
<1>9. \E c \in Requests : c.kind = "browse"
  BY <1>6 DEF Sought, Requests
<1>10. Following # {}
  BY <1>7, <1>8, <1>9 DEF Following, Asking
<1>11. Paged
  <2>1. \A c, d \in Requests : c.kind = "browse" /\ d.kind = "browse" => c = d
    BY <1>6 DEF Alone, Requests
  <2>2. \A c \in Requests : c.kind = "browse" => ~c.arg.button /\ c.arg.button \in BOOLEAN /\ c.arg.nr \in Nat \ {0}
    BY <1>7, <1>8
  <2>3. QED BY <1>2, <1>6, <1>7, <1>9, <1>10, <2>1, <2>2 DEF Paged
<1>12. QED BY <1>2, <1>3, <1>6, <1>7, <1>11 DEF RegistryCore, RegistryType

\* Once everything is answered, the page shows what is true.
LEMMA RegistryEnd == ASSUME RegistryCore, Settled PROVE RegistryTrue
<1> SUFFICES ASSUME ~st.hasty
             PROVE  /\ st.items = Upto(Sifted, st.nr) /\ (st.more <=> Len(Sifted) > st.nr)
                    /\ RegistryEmpty <=> Sifted = <<>>
                    /\ RegistryView.body = "nothing listed" => srv.listed = <<>>
  BY DEF RegistryTrue, Upto, Sifted
<1>1. /\ st.error = FALSE /\ ~st.loading /\ st.nr \in Nat \ {0} /\ st.items = Upto(Sifted, st.nr)
      /\ (st.more <=> Len(Sifted) > st.nr)
  BY DEF RegistryCore, Paged, Steady, Settled, Following, Asking
<1>2. srv.listed \in {Catalog, <<>>}
  BY DEF RegistryCore, RegistryType
<1>3. Sifted \in Seq(DOMAIN TypeOf)
  BY <1>2, ResultsSeq DEF Sifted
<1>4. st.items = <<>> <=> Sifted = <<>>
  <2>1. CASE Len(Sifted) = 0
    <3>1. Sifted = <<>>
      BY <1>3, <2>1
    <3>2. Upto(Sifted, st.nr) = <<>>
      BY <1>1, <2>1 DEF Upto
    <3>3. QED BY <1>1, <3>1, <3>2
  <2>2. CASE Len(Sifted) # 0
    <3>1. Sifted # <<>> /\ Len(Sifted) \in Nat
      BY <1>3, <2>2
    <3>2. 1 \in DOMAIN Upto(Sifted, st.nr)
      BY <1>1, <2>2, <3>1 DEF Upto
    <3>3. QED BY <1>1, <3>1, <3>2
  <2>3. QED BY <2>1, <2>2
<1>5. /\ RegistryView.body = IF st.error THEN "could not load"
                             ELSE IF st.items # <<>> \/ st.loading THEN "list"
                             ELSE IF Browsing(st.filter) THEN "nothing listed" ELSE "nothing matches"
  BY DEF RegistryView
<1>6. RegistryEmpty <=> st.items = <<>>
  BY <1>1, <1>5 DEF RegistryEmpty
<1>7. RegistryView.body = "nothing listed" => st.filter = NoFilter /\ st.items = <<>>
  BY <1>1, <1>5 DEF Browsing
<1>8. st.filter = NoFilter /\ Sifted = <<>> => srv.listed = <<>>
  BY <1>2, ResultsAll DEF Sifted
<1>9. QED BY <1>1, <1>4, <1>6, <1>7, <1>8

-----------------------------------------------------------------------------
(* An item of the marketplace *)

ItemRecords == [item : Listings, visible : BOOLEAN, saved : BOOLEAN, signedIn : BOOLEAN, reports : Nat]
ReportParts == {"open", "done", "error", "filled", "submitting"}

ItemAsked(x, c, a) ==
  /\ c.kind \in {"item", "favorite", "report"}
  /\ c.kind = "favorite" => c.arg \in BOOLEAN /\ a \in {Waiting, IF x.signedIn THEN "ok" ELSE Failed}
  /\ c.kind = "report" => a \in {Waiting, Failed} \/ x.reports > 0

ItemType ==
  /\ DOMAIN st = {"item", "loading", "notFound", "saved", "toggled", "install", "target", "report"}
  /\ st.saved \in BOOLEAN /\ st.toggled \in Nat /\ DOMAIN st.report = ReportParts
  /\ srv \in ItemRecords
  /\ \A c \in Requests : ItemAsked(srv, c, calls[c])

ItemAnswer == IF srv.visible THEN [item |-> srv.item, saved |-> srv.saved] ELSE Failed

ItemLoading ==
  /\ st.loading /\ ~st.notFound /\ st.item = NoData /\ st.saved = FALSE /\ st.toggled = 0 /\ ~st.report.done
  /\ srv.saved => srv.signedIn
  /\ Alone(calls, "item", ItemAnswer) /\ Sought(calls, "item") /\ \A c \in Requests : c.kind = "item"

ItemMissing == ~st.loading /\ st.notFound /\ st.item = NoData /\ ~srv.visible /\ Requests = {}

\* The last write that waits is the one that is shown.
LastWrite(f, k, v, x) ==
  \/ v = x /\ \A l \in DOMAIN f : l.kind = k => f[l] # Waiting
  \/ \E l \in DOMAIN f : /\ l.kind = k /\ f[l] = Waiting /\ l.arg = x
                         /\ \A o \in DOMAIN f : o.kind = k /\ f[o] = Waiting => o.id <= l.id

\* Who is not signed in has saved nothing, and the first click is taken back.
Refused ==
  /\ srv.saved = FALSE
  /\ st.toggled = 0 => st.saved = FALSE /\ ~Sought(calls, "favorite")
  /\ st.toggled = 1 => /\ st.saved = FALSE \/ Sought(calls, "favorite")
                       /\ \A c \in Requests : c.kind = "favorite" => c.arg = TRUE

ItemShown ==
  /\ ~st.loading /\ ~st.notFound /\ st.item = srv.item /\ srv.visible /\ \A c \in Requests : c.kind # "item"
  /\ st.target = None \/ st.target \in st.item.configs
  /\ st.report.done => srv.reports > 0
  /\ Listed(calls, "favorite")
  /\ IF srv.signedIn THEN LastWrite(calls, "favorite", srv.saved, st.saved) ELSE Refused

\* The item is on its way, missing, or shown as the server has it, with the
\* heart as the last click left it.
ItemCore == ItemType /\ (ItemLoading \/ ItemMissing \/ ItemShown)

\* The steps that this page takes while nobody else does anything.
LEMMA ItemSteps ==
  ASSUME page = "item", ItemCore, Inside
  PROVE  ItemClick \/ \E c \in Requests : ItemServe(c) \/ (Answer(c) # Waiting /\ ItemArrive(c))
<1>1. \A c \in Requests : c.kind \in {"item", "favorite", "report"}
  BY DEF ItemCore, ItemType, ItemAsked
<1>2. QED
  BY <1>1 DEF Inside, Click, ServeSome, Serve, ArriveSome, Arrive, TimerSome, PosturePages, FilterPages,
       InstallUrlServed, DetailsServe, ReportServe, AgentServe, RegistryServe, SubmitServe, NewItemServe

LEMMA ItemSent ==
  ASSUME VisitType, ItemType, NEW kept \in SUBSET Requests, NEW new, Sends(kept, new), \A r \in new : ItemAsked(srv, r, Waiting), srv' = srv
  PROVE  \A c \in Requests' : ItemAsked(srv', c, calls'[c])
<1>1. /\ \A c \in New(new) : \E r \in new : c.kind = r.kind /\ c.arg = r.arg
      /\ Requests' = kept \cup New(new)
      /\ \A c \in kept : calls'[c] = calls[c]
      /\ \A c \in New(new) : calls'[c] = Waiting
  BY NewFacts DEF Sends
<1>2. \A c \in New(new) : ItemAsked(srv, c, Waiting)
  BY <1>1 DEF ItemAsked
<1>3. QED BY <1>1, <1>2 DEF ItemType, ItemAsked

\* What the requests for the mark are while nobody touches it.
LEMMA ItemSame ==
  ASSUME VisitType, ItemType, ItemShown, NEW kept \in SUBSET Requests, NEW new, Sends(kept, new),
         \A o \in Requests : o.kind = "favorite" /\ o \notin kept => srv.signedIn /\ calls[o] # Waiting,
         \A r \in new : ItemAsked(srv, r, Waiting) /\ r.kind = "report",
         srv' = srv, DOMAIN st' = DOMAIN st, DOMAIN st'.report = ReportParts,
         st'.saved = st.saved, st'.toggled = st.toggled, st'.loading = st.loading, st'.notFound = st.notFound,
         st'.item = st.item, st'.target = st.target \/ st'.target \in st.item.configs,
         st'.report.done => srv.reports > 0
  PROVE  ItemCore'
<1>1. \A c \in New(new) : \E r \in new : c.kind = r.kind /\ c.arg = r.arg
  BY NewFacts
<1>2. Requests' = kept \cup New(new) /\ (\A c \in kept : calls'[c] = calls[c]) /\ \A c \in New(new) : calls'[c] = Waiting
  BY DEF Sends
<1>3. ItemType'
  BY ItemSent DEF ItemType
<1>4. Listed(calls', "favorite")
  BY SendsListed DEF ItemShown
<1>5. \A c \in Requests' : c.kind = "favorite" => c \in kept /\ c \in Requests /\ calls'[c] = calls[c]
  BY <1>1, <1>2
<1>6. LastWrite(calls, "favorite", srv.saved, st.saved) => LastWrite(calls', "favorite", srv.saved, st.saved)
  BY <1>2, <1>5 DEF LastWrite, Requests
<1>7. ~srv.signedIn => (Sought(calls', "favorite") <=> Sought(calls, "favorite"))
  BY <1>2, <1>5 DEF Sought, Requests
<1>8. ~srv.signedIn /\ Refused => Refused'
  BY <1>5, <1>7 DEF Refused
<1>9. \A c \in Requests' : c.kind # "item"
  BY <1>1, <1>2 DEF ItemShown
<1>10. ItemShown'
  BY <1>4, <1>6, <1>8, <1>9 DEF ItemShown
<1>11. QED BY <1>3, <1>10 DEF ItemCore

\* Every step of a calm visit keeps it so.
LEMMA ItemCalm ==
  ASSUME page = "item", VisitType, ItemCore, Inside, ~overtaken'
  PROVE  ItemCore'
<1>1. /\ DOMAIN st = {"item", "loading", "notFound", "saved", "toggled", "install", "target", "report"}
      /\ st.saved \in BOOLEAN /\ st.toggled \in Nat /\ DOMAIN st.report = ReportParts
      /\ srv \in ItemRecords /\ ItemType
      /\ \A c \in Requests : ItemAsked(srv, c, calls[c])
  BY DEF ItemCore, ItemType
<1>2. CASE ItemClick
  <2>1. ItemShown
    <3>1. NoData \notin Listings
      BY ListingsAssumption DEF Marks
    <3>2. QED BY <1>2, <3>1 DEF ItemClick, ItemThere, ItemCore, ItemLoading, ItemMissing
  <2>2. Requests \ {} = Requests /\ Requests \in SUBSET Requests /\ \A r \in {} : ItemAsked(srv, r, Waiting) /\ r.kind = "report"
    OBVIOUS
  <2>3. ASSUME NEW s, NEW new, Acts(s, {}, new), \A r \in new : ItemAsked(srv, r, Waiting) /\ r.kind = "report",
               DOMAIN s = DOMAIN st, DOMAIN s.report = ReportParts,
               s.saved = st.saved, s.toggled = st.toggled, s.loading = st.loading, s.notFound = st.notFound,
               s.item = st.item, s.target = st.target \/ s.target \in st.item.configs, s.report.done => st.report.done
        PROVE  ItemCore'
    <3>1. Sends(Requests, new) /\ srv' = srv /\ st' = s
      BY <2>2, <2>3, ActsFacts
    <3>2. s.report.done => srv.reports > 0
      BY <2>1, <2>3 DEF ItemShown
    <3>3. QED BY <1>1, <2>1, <2>2, <2>3, <3>1, <3>2, ItemSame
  <2>4. ASSUME NEW b, Acts([st EXCEPT !.install = b], {}, {})
        PROVE  ItemCore'
    <3> DEFINE s == [st EXCEPT !.install = b]
    <3>1. /\ DOMAIN s = DOMAIN st /\ s.report = st.report /\ s.saved = st.saved /\ s.toggled = st.toggled /\ s.loading = st.loading
          /\ s.notFound = st.notFound /\ s.item = st.item /\ s.target = st.target /\ Acts(s, {}, {})
      BY <1>1, <2>4
    <3> HIDE DEF s
    <3>2. QED BY <1>1, <2>2, <2>3, <3>1
  <2>5. ASSUME NEW t \in st.item.configs, Acts([st EXCEPT !.target = t], {}, {})
        PROVE  ItemCore'
    <3> DEFINE s == [st EXCEPT !.target = t]
    <3>1. /\ DOMAIN s = DOMAIN st /\ s.report = st.report /\ s.saved = st.saved /\ s.toggled = st.toggled /\ s.loading = st.loading
          /\ s.notFound = st.notFound /\ s.item = st.item /\ s.target = t /\ Acts(s, {}, {})
      BY <1>1, <2>5
    <3> HIDE DEF s
    <3>2. QED BY <1>1, <2>2, <2>3, <2>5, <3>1
  <2>6. ASSUME NEW r, DOMAIN r = ReportParts, r.done => st.report.done, NEW new, \A q \in new : ItemAsked(srv, q, Waiting) /\ q.kind = "report",
               Acts([st EXCEPT !.report = r], {}, new)
        PROVE  ItemCore'
    <3> DEFINE s == [st EXCEPT !.report = r]
    <3>1. /\ DOMAIN s = DOMAIN st /\ s.report = r /\ s.saved = st.saved /\ s.toggled = st.toggled /\ s.loading = st.loading
          /\ s.notFound = st.notFound /\ s.item = st.item /\ s.target = st.target /\ Acts(s, {}, new)
      BY <1>1, <2>6
    <3> HIDE DEF s
    <3>2. QED BY <1>1, <2>3, <2>6, <3>1
  <2>7. ASSUME NEW r, DOMAIN r = ReportParts, r.done => st.report.done, Acts([st EXCEPT !.report = r], {}, {})
        PROVE  ItemCore'
    BY <2>2, <2>6, <2>7
  <2>8. ASSUME NEW b, Acts([st EXCEPT !.report.open = b], {}, {}) \/ Acts([st EXCEPT !.report.filled = b], {}, {})
        PROVE  ItemCore'
    <3> DEFINE r == [st.report EXCEPT !.open = b]
               q == [st.report EXCEPT !.filled = b]
    <3>1. DOMAIN r = ReportParts /\ r.done = st.report.done /\ DOMAIN q = ReportParts /\ q.done = st.report.done
      BY <1>1 DEF ReportParts
    <3>2. Acts([st EXCEPT !.report = r], {}, {}) \/ Acts([st EXCEPT !.report = q], {}, {})
      BY <2>8
    <3> HIDE DEF r, q
    <3>3. QED BY <2>7, <3>1, <3>2
  <2>9. CASE LeaveReport
    <3> DEFINE r == [NoReport EXCEPT !.submitting = st.report.submitting]
    <3>1. DOMAIN r = ReportParts /\ r.done = FALSE
      BY DEF NoReport, ReportParts
    <3>2. Acts([st EXCEPT !.report = r], {}, {})
      BY <2>9 DEF LeaveReport
    <3> HIDE DEF r
    <3>3. QED BY <2>7, <3>1, <3>2
  <2>10. CASE SubmitReport
    <3> DEFINE r == [st.report EXCEPT !.submitting = TRUE, !.error = FALSE]
               new == {Ask("report", None)}
    <3>1. DOMAIN r = ReportParts /\ r.done = st.report.done
      BY <1>1 DEF ReportParts
    <3>2. Acts([st EXCEPT !.report = r], {}, new)
      BY <2>10 DEF SubmitReport
    <3>3. \A q \in new : ItemAsked(srv, q, Waiting) /\ q.kind = "report"
      BY DEF Ask, ItemAsked
    <3> HIDE DEF r, new
    <3>4. QED BY <2>6, <3>1, <3>2, <3>3
  <2>11. CASE Toggle
    <3> DEFINE n == st.toggled + 1
               s == [st EXCEPT !.saved = ~st.saved, !.toggled = n]
               q == Ask("favorite", ~st.saved)
               new == {q}
    <3>1. n \in Nat /\ n > 0 /\ (n = 1 => st.toggled = 0)
      BY <1>1
    <3>2. Acts(s, {}, new)
      BY <2>11 DEF Toggle
    <3> HIDE DEF n
    <3>3. /\ DOMAIN s = DOMAIN st /\ s.report = st.report /\ s.saved = ~st.saved /\ s.toggled = n /\ s.loading = st.loading
          /\ s.notFound = st.notFound /\ s.item = st.item /\ s.target = st.target
      BY <1>1
    <3>4. q.kind = "favorite" /\ q.arg = ~st.saved
      BY DEF Ask
    <3> HIDE DEF s, q
    <3>5. (\A r \in new : ItemAsked(srv, r, Waiting)) /\ q \in new /\ \A r \in new : r.arg = q.arg
      BY <1>1, <3>4 DEF ItemAsked
    <3> HIDE DEF new
    <3>6. Sends(Requests, new) /\ srv' = srv /\ st' = s
      BY <2>2, <3>2, ActsFacts
    <3>7. ItemType'
      <4>1. \A o \in Requests' : ItemAsked(srv', o, calls'[o])
        BY <1>1, <2>2, <3>5, <3>6, ItemSent
      <4>2. QED BY <1>1, <3>1, <3>3, <3>6, <4>1 DEF ItemType
    <3>8. Listed(calls', "favorite")
      BY <2>1, <2>2, <3>5, <3>6, SendsListed DEF ItemShown
    <3>9. /\ \A o \in New(new) : o.id = issued + 1 /\ o.kind = "favorite" /\ o.arg = ~st.saved
          /\ Requests' = Requests \cup New(new) /\ \A o \in New(new) : calls'[o] = Waiting
      <4>1. \A r \in new : r.kind = "favorite" /\ r.arg = ~st.saved
        BY <3>4 DEF new
      <4>2. QED BY <3>6, <4>1, NewFacts DEF Sends
    <3>10. PICK l \in New(new) : l.kind = "favorite"
      <4>1. [id |-> issued + 1, kind |-> q.kind, arg |-> q.arg] \in New(new)
        BY <3>5 DEF New, Numbered
      <4>2. QED BY <3>9, <4>1
    <3>11. LastWrite(calls', "favorite", srv.saved, ~st.saved)
      <4>1. \A o \in Requests' : o.id <= l.id
        BY <3>9, <3>10 DEF VisitType
      <4>2. QED BY <3>9, <3>10, <4>1 DEF LastWrite, Requests
    <3>12. ~srv.signedIn => Refused'
      <4>1. Sought(calls', "favorite")
        BY <3>9, <3>10 DEF Sought, Requests
      <4>2. ~srv.signedIn => Refused
        BY <2>1 DEF ItemShown
      <4>3. ASSUME ~srv.signedIn, n = 1 PROVE \A c \in Requests' : c.kind = "favorite" => c.arg = TRUE
        BY <3>1, <3>9, <4>2, <4>3 DEF Refused, Sought, Requests
      <4>4. n # 0
        BY <3>1
      <4>5. QED BY <3>3, <3>6, <4>1, <4>2, <4>3, <4>4 DEF Refused
    <3>13. ItemShown'
      <4>1. \A c \in Requests' : c.kind # "item"
        BY <2>1, <3>9 DEF ItemShown
      <4>2. QED BY <2>1, <3>3, <3>6, <3>8, <3>11, <3>12, <4>1 DEF ItemShown
    <3>14. QED BY <3>7, <3>13 DEF ItemCore
  <2>12. QED BY <1>2, <2>4, <2>5, <2>8, <2>9, <2>10, <2>11 DEF ItemClick, CloseReport
<1>3. ASSUME NEW c \in Requests, ItemServe(c)
      PROVE  ItemCore'
  <2>1. ASSUME NEW a, NEW r, Replies(c, a, r)
        PROVE  /\ st' = st /\ srv' = r /\ Requests' = Requests /\ calls[c] = Waiting /\ calls'[c] = a
               /\ (\A o \in Requests \ {c} : calls'[o] = calls[o]) /\ (Listed(calls, "favorite") => Listed(calls', "favorite"))
               /\ \A o \in Requests : o.kind = c.kind /\ o.id < c.id => calls[o] # Waiting
    <3>1. /\ st' = st /\ srv' = r /\ Requests' = Requests /\ calls[c] = Waiting /\ calls'[c] = a
          /\ (\A o \in Requests \ {c} : calls'[o] = calls[o])
          /\ \A o \in Requests : o.kind = c.kind /\ o.id < c.id => calls[o] # Waiting
      BY <2>1, RepliesFacts
    <3>2. QED BY <3>1 DEF Listed, Requests
  <2>2. CASE c.kind = "item" /\ Replies(c, ItemAnswer, srv)
    <3>1. ItemLoading
      BY <2>2 DEF ItemCore, ItemMissing, ItemShown
    <3>2. st' = st /\ srv' = srv /\ Requests' = Requests /\ Alone(calls', "item", ItemAnswer) /\ Sought(calls', "item")
      BY <2>2, <3>1, RepliesAlone DEF ItemLoading
    <3>3. ItemType'
      BY <1>1, <3>1, <3>2 DEF ItemType, ItemAsked, ItemLoading
    <3>4. QED BY <3>1, <3>2, <3>3 DEF ItemCore, ItemLoading, ItemAnswer
  <2>3. CASE c.kind = "favorite"
    <3>1. ItemShown
      BY <2>3 DEF ItemCore, ItemMissing, ItemLoading
    <3>2. CASE srv.signedIn /\ Replies(c, "ok", [srv EXCEPT !.saved = c.arg])
      <4> DEFINE r == [srv EXCEPT !.saved = c.arg]
      <4>1. c.arg \in BOOLEAN
        BY <1>1, <2>3 DEF ItemAsked
      <4>2. /\ r \in ItemRecords /\ r.saved = c.arg /\ r.signedIn = srv.signedIn /\ r.reports = srv.reports
            /\ r.item = srv.item /\ r.visible = srv.visible
        BY <1>1, <4>1 DEF ItemRecords
      <4> HIDE DEF r
      <4>3. /\ st' = st /\ srv' = r /\ Requests' = Requests /\ calls[c] = Waiting /\ calls'[c] = "ok"
            /\ (\A o \in Requests \ {c} : calls'[o] = calls[o]) /\ (Listed(calls, "favorite") => Listed(calls', "favorite"))
            /\ \A o \in Requests : o.kind = c.kind /\ o.id < c.id => calls[o] # Waiting
        BY <2>1, <3>2 DEF r
      <4>4. ItemType'
        BY <1>1, <2>3, <3>2, <4>2, <4>3 DEF ItemType, ItemAsked
      <4>5. LastWrite(calls', "favorite", c.arg, st.saved)
        <5>1. PICK l \in Requests : /\ l.kind = "favorite" /\ calls[l] = Waiting /\ l.arg = st.saved
                                    /\ \A o \in Requests : o.kind = "favorite" /\ calls[o] = Waiting => o.id <= l.id
          BY <2>3, <3>1, <3>2, <4>3 DEF ItemShown, LastWrite, Requests
        <5>2. CASE l = c
          <6>1. \A o \in Requests : o.kind = "favorite" /\ calls[o] = Waiting => o.id = c.id
            BY <2>3, <4>3, <5>1, <5>2 DEF VisitType
          <6>2. \A o \in Requests \ {c} : o.kind = "favorite" => calls'[o] # Waiting
            BY <2>3, <3>1, <4>3, <6>1 DEF ItemShown, Listed, Requests
          <6>3. "ok" # Waiting
            BY MarksAssumption DEF Marks
          <6>4. \A o \in Requests' : o.kind = "favorite" => calls'[o] # Waiting
            BY <4>3, <6>2, <6>3
          <6>5. QED BY <5>1, <5>2, <6>4 DEF LastWrite, Requests
        <5>3. CASE l # c
          <6>1. "ok" # Waiting
            BY MarksAssumption DEF Marks
          <6>2. l \in Requests' /\ calls'[l] = Waiting /\ \A o \in Requests' : o.kind = "favorite" /\ calls'[o] = Waiting => o.id <= l.id
            BY <4>3, <5>1, <5>3, <6>1
          <6>3. QED BY <5>1, <6>2 DEF LastWrite, Requests
        <5>4. QED BY <5>2, <5>3
      <4>6. ItemShown'
        BY <3>1, <3>2, <4>2, <4>3, <4>5 DEF ItemShown
      <4>7. QED BY <4>4, <4>6 DEF ItemCore
    <3>3. CASE ~srv.signedIn /\ Replies(c, Failed, srv)
      <4>1. /\ st' = st /\ srv' = srv /\ Requests' = Requests /\ calls[c] = Waiting /\ calls'[c] = Failed
            /\ (\A o \in Requests \ {c} : calls'[o] = calls[o]) /\ (Listed(calls, "favorite") => Listed(calls', "favorite"))
        BY <2>1, <3>3
      <4>2. ItemType'
        BY <1>1, <2>3, <3>3, <4>1 DEF ItemType, ItemAsked
      <4>3. Refused => Refused'
        BY <4>1 DEF Refused, Sought, Requests
      <4>4. ItemShown'
        BY <3>1, <3>3, <4>1, <4>3 DEF ItemShown
      <4>5. QED BY <4>2, <4>4 DEF ItemCore
    <3>4. QED BY <1>3, <2>3, <3>2, <3>3 DEF ItemServe
  <2>4. ASSUME NEW a, NEW r \in ItemRecords, c.kind = "report", Replies(c, a, r), a \in {Waiting, Failed} \/ r.reports > 0,
               srv.reports > 0 => r.reports > 0, r.saved = srv.saved, r.signedIn = srv.signedIn, r.item = srv.item, r.visible = srv.visible
        PROVE  ItemCore'
    <3>1. ItemShown
      BY <2>4 DEF ItemCore, ItemMissing, ItemLoading
    <3>2. /\ st' = st /\ srv' = r /\ Requests' = Requests /\ calls[c] = Waiting /\ calls'[c] = a
          /\ (\A o \in Requests \ {c} : calls'[o] = calls[o]) /\ (Listed(calls, "favorite") => Listed(calls', "favorite"))
      BY <2>1, <2>4
    <3>3. ItemType'
      BY <1>1, <2>4, <3>2 DEF ItemType, ItemAsked
    <3>4. \A o \in Requests : o.kind = "favorite" => calls'[o] = calls[o]
      BY <2>4, <3>2
    <3>5. LastWrite(calls, "favorite", srv.saved, st.saved) => LastWrite(calls', "favorite", srv.saved, st.saved)
      BY <3>2, <3>4 DEF LastWrite, Requests
    <3>6. Refused => Refused'
      BY <2>4, <3>2 DEF Refused, Sought, Requests
    <3>7. ItemShown'
      BY <2>4, <3>1, <3>2, <3>5, <3>6 DEF ItemShown
    <3>8. QED BY <3>3, <3>7 DEF ItemCore
  <2>5. CASE c.kind = "report"
    <3>1. CASE Replies(c, Failed, srv)
      BY <1>1, <2>4, <2>5, <3>1
    <3>2. CASE Replies(c, "ok", [srv EXCEPT !.reports = @ + 1])
      <4> DEFINE n == srv.reports + 1
                 r == [srv EXCEPT !.reports = n]
      <4>1. n \in Nat /\ n > 0
        BY <1>1 DEF ItemRecords
      <4>2. Replies(c, "ok", r)
        BY <3>2
      <4> HIDE DEF n
      <4>3. r \in ItemRecords /\ r.reports = n /\ r.saved = srv.saved /\ r.signedIn = srv.signedIn /\ r.item = srv.item /\ r.visible = srv.visible
        BY <1>1, <4>1 DEF ItemRecords
      <4> HIDE DEF r
      <4>4. QED BY <2>4, <2>5, <4>1, <4>2, <4>3
    <3>3. QED BY <1>3, <2>5, <3>1, <3>2 DEF ItemServe
  <2>6. QED BY <1>3, <2>2, <2>3, <2>5 DEF ItemServe, ItemAnswer
<1>4. ASSUME NEW c \in Requests, Answer(c) # Waiting, ItemArrive(c)
      PROVE  ItemCore'
  <2> DEFINE kept == Requests \ {c}
  <2>1. (Requests \ {c}) \ {} = kept /\ kept \in SUBSET Requests
        /\ (\A r \in {} : ItemAsked(srv, r, Waiting) /\ r.kind = "report") /\ \A o \in {} : o.kind # c.kind
    OBVIOUS
  <2>2. CASE ItemArrives(c)
    <3>1. c.kind = "item" /\ ItemLoading
      BY <2>2 DEF ItemArrives, ItemCore, ItemMissing, ItemShown
    <3>2. calls[c] = ItemAnswer /\ kept = {}
      BY <1>4, <3>1 DEF ItemLoading, Alone, Answer, Requests
    <3>3. ASSUME NEW s, Takes(c, s, {}, {}), DOMAIN s = DOMAIN st, s.saved \in BOOLEAN, s.toggled = 0, s.report = st.report
          PROVE  st' = s /\ srv' = srv /\ ItemType' /\ Requests' = {} /\ (\A k : ~Sought(calls', k))
      <4>1. Sends(kept, {}) /\ srv' = srv /\ st' = s
        BY <2>1, <3>3, TakesFacts
      <4>2. Requests' = {}
        BY <3>2, <4>1, NumberedNone DEF Sends, New
      <4>3. QED BY <1>1, <3>3, <4>1, <4>2 DEF ItemType, Sought, Requests
    <3>4. CASE Threw(c)
      <4> DEFINE s == [st EXCEPT !.loading = FALSE, !.notFound = TRUE]
      <4>1. /\ DOMAIN s = DOMAIN st /\ s.saved = st.saved /\ s.toggled = st.toggled /\ s.report = st.report /\ s.loading = FALSE
            /\ s.notFound = TRUE /\ s.item = st.item /\ Takes(c, s, {}, {})
        BY <1>1, <2>2, <3>4 DEF ItemArrives
      <4> HIDE DEF s
      <4>2. st' = s /\ srv' = srv /\ ItemType' /\ Requests' = {}
        BY <1>1, <3>1, <3>3, <4>1 DEF ItemLoading
      <4>3. ~srv.visible
        <5>1. [item |-> srv.item, saved |-> srv.saved] \in ItemAnswers
          BY <1>1 DEF ItemAnswers, ItemRecords
        <5>2. Failed \notin ItemAnswers
          BY ListingsAssumption DEF Marks
        <5>3. QED BY <3>2, <3>4, <5>1, <5>2 DEF ItemAnswer, Threw, Answer
      <4>4. QED BY <3>1, <4>1, <4>2, <4>3 DEF ItemCore, ItemMissing, ItemLoading
    <3>5. CASE ~Threw(c)
      <4> DEFINE t == IF Answer(c).item.configs = {} THEN None ELSE "claude-code"
                 s == [st EXCEPT !.loading = FALSE, !.item = Answer(c).item, !.saved = Answer(c).saved, !.target = t]
      <4>1. srv.visible /\ Answer(c).item = srv.item /\ Answer(c).saved = srv.saved
        BY <3>2, <3>5 DEF ItemAnswer, Threw, Answer
      <4>2. t = None \/ t \in srv.item.configs
        BY <1>1, <4>1 DEF ItemRecords, Listings
      <4> HIDE DEF t
      <4>3. /\ DOMAIN s = DOMAIN st /\ s.saved = srv.saved /\ s.toggled = st.toggled /\ s.report = st.report /\ s.loading = FALSE
            /\ s.notFound = st.notFound /\ s.item = srv.item /\ s.target = t
        BY <1>1, <4>1
      <4>4. Takes(c, s, {}, {})
        BY <2>2, <3>5 DEF ItemArrives, t
      <4> HIDE DEF s
      <4>5. srv.saved \in BOOLEAN /\ (srv.saved => srv.signedIn) /\ st.toggled = 0
        BY <1>1, <3>1 DEF ItemRecords, ItemLoading
      <4>6. st' = s /\ srv' = srv /\ ItemType' /\ Requests' = {} /\ \A k : ~Sought(calls', k)
        BY <3>3, <4>3, <4>4, <4>5
      <4>7. Listed(calls', "favorite") /\ LastWrite(calls', "favorite", srv.saved, srv.saved)
        BY <4>6 DEF Listed, LastWrite, Requests
      <4>8. ~srv.signedIn => Refused'
        BY <4>3, <4>5, <4>6 DEF Refused
      <4>9. ItemShown'
        BY <3>1, <4>1, <4>2, <4>3, <4>6, <4>7, <4>8 DEF ItemShown, ItemLoading
      <4>10. QED BY <4>6, <4>9 DEF ItemCore
    <3>6. QED BY <3>4, <3>5
  <2>3. CASE c.kind # "item"
    <3>1. ItemShown
      BY <1>4, <2>3 DEF ItemCore, ItemMissing, ItemLoading
    <3>2. ASSUME NEW s, Takes(c, s, {}, {}), c.kind = "favorite" => srv.signedIn,
                 DOMAIN s = DOMAIN st, DOMAIN s.report = ReportParts,
                 s.saved = st.saved, s.toggled = st.toggled, s.loading = st.loading, s.notFound = st.notFound,
                 s.item = st.item, s.target = st.target, s.report.done => srv.reports > 0
          PROVE  ItemCore'
      <4>1. Sends(kept, {}) /\ srv' = srv /\ st' = s
        BY <2>1, <3>2, TakesFacts
      <4>2. \A o \in Requests : o.kind = "favorite" /\ o \notin kept => srv.signedIn /\ calls[o] # Waiting
        BY <1>4, <3>2 DEF Answer
      <4> HIDE DEF kept
      <4>3. QED BY <1>1, <2>1, <3>1, <3>2, <4>1, <4>2, ItemSame
    <3>3. CASE Toggled(c)
      <4>1. c.kind = "favorite" /\ c.arg \in BOOLEAN /\ calls[c] = IF srv.signedIn THEN "ok" ELSE Failed
        BY <1>1, <1>4, <3>3 DEF Toggled, ItemAsked, Answer
      <4>2. CASE srv.signedIn
        <5>1. Takes(c, st, {}, {})
          BY <3>3, <4>1, <4>2, MarksAssumption DEF Toggled, Threw, Answer, Marks
        <5>2. QED BY <1>1, <3>1, <3>2, <4>2, <5>1 DEF ItemShown
      <4>3. CASE ~srv.signedIn
        <5> DEFINE s == [st EXCEPT !.saved = ~c.arg]
        <5>1. Takes(c, s, {}, {})
          BY <3>3, <4>1, <4>3 DEF Toggled, Threw, Answer
        <5>2. /\ DOMAIN s = DOMAIN st /\ s.report = st.report /\ s.saved = ~c.arg /\ s.toggled = st.toggled /\ s.loading = st.loading
              /\ s.notFound = st.notFound /\ s.item = st.item /\ s.target = st.target
          BY <1>1
        <5> HIDE DEF s
        <5>3. Sends(kept, {}) /\ srv' = srv /\ st' = s
          BY <2>1, <5>1, TakesFacts
        <5>4. Requests' = kept /\ \A o \in kept : calls'[o] = calls[o]
          BY <5>3, NumberedNone DEF Sends, New
        <5>5. ItemType'
          <6>1. \A o \in Requests' : ItemAsked(srv', o, calls'[o])
            BY <1>1, <5>3, <5>4 DEF ItemAsked
          <6>2. QED BY <1>1, <4>1, <5>2, <5>3, <6>1 DEF ItemType
        <5>6. Listed(calls', "favorite")
          BY <3>1, <5>4 DEF ItemShown, Listed, Requests
        <5>7. Refused'
          <6>1. Refused
            BY <3>1, <4>3 DEF ItemShown
          <6>2. st.toggled # 0
            BY <4>1, <6>1 DEF Refused, Sought, Requests
          <6>3. st.toggled = 1 => c.arg = TRUE
            BY <4>1, <6>1 DEF Refused
          <6>4. st.toggled = 1 => \A o \in Requests' : o.kind = "favorite" => o.arg = TRUE
            BY <5>4, <6>1 DEF Refused
          <6>5. QED BY <5>2, <5>3, <6>1, <6>2, <6>3, <6>4 DEF Refused
        <5>8. ItemShown'
          BY <3>1, <4>3, <5>2, <5>3, <5>4, <5>6, <5>7 DEF ItemShown
        <5>9. QED BY <5>5, <5>8 DEF ItemCore
      <4>4. QED BY <4>2, <4>3
    <3>4. ASSUME NEW r, DOMAIN r = ReportParts, r.done => srv.reports > 0, c.kind = "report", Takes(c, [st EXCEPT !.report = r], {}, {})
          PROVE  ItemCore'
      <4> DEFINE s == [st EXCEPT !.report = r]
      <4>1. /\ DOMAIN s = DOMAIN st /\ s.report = r /\ s.saved = st.saved /\ s.toggled = st.toggled /\ s.loading = st.loading
            /\ s.notFound = st.notFound /\ s.item = st.item /\ s.target = st.target /\ Takes(c, s, {}, {})
        BY <1>1, <3>4
      <4> HIDE DEF s
      <4>2. QED BY <3>2, <3>4, <4>1
    <3>5. CASE ReportSent(c)
      <4> DEFINE r == [st.report EXCEPT !.submitting = FALSE, !.error = TRUE]
                 q == [st.report EXCEPT !.submitting = FALSE, !.done = TRUE]
      <4>1. DOMAIN r = ReportParts /\ r.done = st.report.done /\ DOMAIN q = ReportParts /\ q.done = TRUE
        BY <1>1 DEF ReportParts
      <4>2. c.kind = "report" /\ IF Threw(c) THEN Takes(c, [st EXCEPT !.report = r], {}, {}) ELSE Takes(c, [st EXCEPT !.report = q], {}, {})
        BY <3>5 DEF ReportSent
      <4> HIDE DEF r, q
      <4>3. ~Threw(c) => srv.reports > 0
        BY <1>1, <1>4, <4>2 DEF ItemAsked, Threw, Answer
      <4>4. st.report.done => srv.reports > 0
        BY <3>1 DEF ItemShown
      <4>5. QED BY <3>4, <4>1, <4>2, <4>3, <4>4
    <3>6. QED BY <1>4, <2>3, <3>3, <3>5 DEF ItemArrive, ItemArrives
  <2>4. QED BY <1>4, <2>2, <2>3 DEF ItemArrive, Toggled, ReportSent
<1>5. QED BY <1>2, <1>3, <1>4, ItemSteps

\* It is so when the page is mounted.
LEMMA ItemStart == ItemInit => page = "item" /\ ItemCore
<1> SUFFICES ASSUME ItemInit PROVE page = "item" /\ ItemCore
  OBVIOUS
<1> DEFINE s == [item |-> NoData, loading |-> TRUE, notFound |-> FALSE, saved |-> FALSE, toggled |-> 0,
                 install |-> FALSE, target |-> None, report |-> NoReport]
           new == Load({"item"})
<1>1. PICK l \in Listings, saved \in BOOLEAN, visible \in BOOLEAN, signedIn \in BOOLEAN :
        /\ saved => signedIn
        /\ Mounted("item", s, new, {[item |-> l, visible |-> visible, saved |-> saved, signedIn |-> signedIn, reports |-> 0]})
  BY DEF ItemInit
<1> DEFINE r == [item |-> l, visible |-> visible, saved |-> saved, signedIn |-> signedIn, reports |-> 0]
           records == {r}
<1>2. /\ DOMAIN s = {"item", "loading", "notFound", "saved", "toggled", "install", "target", "report"}
      /\ s.loading = TRUE /\ s.notFound = FALSE /\ s.item = NoData /\ s.saved = FALSE /\ s.toggled = 0 /\ s.report = NoReport
  OBVIOUS
<1>3. r \in ItemRecords /\ r.saved = saved /\ r.signedIn = signedIn
  BY DEF ItemRecords
<1>4. DOMAIN NoReport = ReportParts /\ NoReport.done = FALSE
  BY DEF NoReport, ReportParts
<1>5. new = {Ask("item", None)} /\ Ask("item", None).kind = "item"
  BY LoadOne DEF Ask
<1>6. Mounted("item", s, new, records)
  BY <1>1
<1>7. \A q, p \in new : q.kind = "item" /\ p.kind = "item" => q.arg = p.arg
  BY <1>5
<1> HIDE DEF s, r, new
<1>8. /\ page = "item" /\ st = s /\ srv \in records /\ \A o \in Requests : \E q \in new : o.kind = q.kind /\ o.arg = q.arg
      /\ (\A v : Alone(calls, "item", v)) /\ \A q \in new : q.kind = "item" => Sought(calls, "item")
  BY <1>6, <1>7, MountedAlone
<1>9. \A c \in Requests : c.kind = "item"
  BY <1>5, <1>8
<1>10. ItemType
  <2>1. srv \in ItemRecords /\ DOMAIN st = {"item", "loading", "notFound", "saved", "toggled", "install", "target", "report"}
    BY <1>2, <1>3, <1>8
  <2>2. st.saved \in BOOLEAN /\ st.toggled \in Nat /\ DOMAIN st.report = ReportParts
    <3>1. st = s
      BY <1>8
    <3>2. s.saved = FALSE /\ s.toggled = 0 /\ s.report = NoReport
      BY <1>2
    <3>3. st.saved \in BOOLEAN
      BY <3>1, <3>2, Zenon
    <3>4. st.toggled \in Nat
      BY <3>1, <3>2
    <3>5. DOMAIN st.report = ReportParts
      BY <1>4, <3>1, <3>2
    <3>6. QED BY <3>3, <3>4, <3>5
  <2>3. \A c \in Requests : ItemAsked(srv, c, calls[c])
    BY <1>9 DEF ItemAsked
  <2>4. QED BY <2>1, <2>2, <2>3 DEF ItemType
<1>11. ItemLoading
  BY <1>1, <1>2, <1>3, <1>4, <1>5, <1>8, <1>9 DEF ItemLoading
<1>12. QED BY <1>8, <1>10, <1>11 DEF ItemCore

\* Once everything is answered, the page shows what is true.
LEMMA ItemEnd == ASSUME ItemCore, Settled PROVE ItemTrue
<1>1. /\ ~ItemLoading
      /\ NoData \notin Listings /\ None \notin {"remote", "package"} /\ srv.item \in Listings
  BY SettledAlone, ListingsAssumption DEF ItemCore, ItemType, ItemRecords, ItemLoading, Marks
<1>2. CASE ItemMissing
  BY <1>1, <1>2 DEF ItemMissing, ItemTrue, ItemThere
<1>3. CASE ItemShown
  <2>1. srv.signedIn \/ st.toggled < 2 => st.saved = srv.saved
    <3>1. CASE srv.signedIn
      BY <1>3, <3>1 DEF ItemShown, LastWrite, Settled, Requests
    <3>2. CASE ~srv.signedIn /\ st.toggled < 2
      <4>1. st.toggled \in {0, 1}
        BY <3>2 DEF ItemCore, ItemType
      <4>2. QED BY <1>3, <3>2, <4>1, SettledAlone DEF ItemShown, Refused
    <3>3. QED BY <3>1, <3>2
  <2>2. st.report.done => srv.reports > 0
    BY <1>3 DEF ItemShown
  <2>3. ItemView(st.item).install = "offered" <=> srv.item.type = "server" /\ srv.item.configs # {}
    BY <1>3 DEF ItemShown, ItemView
  <2>4. ItemView(st.item).scan # None => srv.item.type = "server" /\ (srv.item.repository \/ srv.item.runs # None)
    BY <1>1, <1>3 DEF ItemShown, ItemView, ScanHandoff
  <2>5. st.target # None => st.target \in UseSection(st.item)
    BY <1>3 DEF ItemShown, UseSection
  <2>6. st.notFound <=> ~srv.visible
    BY <1>3 DEF ItemShown
  <2>7. QED BY <2>1, <2>2, <2>3, <2>4, <2>5, <2>6 DEF ItemTrue
<1>4. QED BY <1>1, <1>2, <1>3 DEF ItemCore

-----------------------------------------------------------------------------
(* Submissions *)

SubmitAsked(c, a) ==
  /\ c.kind \in {"submissions", "suggest"}
  /\ c.kind = "suggest" => c.arg \in Urls
  /\ c.kind = "submissions" => a \in {Waiting, Failed} \cup Submissions

SubmitType ==
  /\ DOMAIN st = {"url", "submitting", "error", "submitted", "list", "sent"}
  /\ st.url \in Urls \cup {None} /\ st.sent \in Nat /\ st.submitted = (st.sent > 0) /\ st.list \in Submissions
  /\ DOMAIN srv = {"submissions", "listed"} /\ srv.submissions \in Submissions
  /\ \A c \in Requests : SubmitAsked(c, calls[c])

Suggesting == \E m \in Requests : m.kind = "suggest" /\ Answered(m)

\* The list is what the server has or will be loaded again.
SubmitCore ==
  /\ SubmitType
  /\ Listed(calls, "submissions")
  /\ st.sent > 1 \/ Suggesting \/ Latest(calls, "submissions", srv.submissions, st.list)

\* The steps that this page takes while nobody else does anything.
LEMMA SubmitSteps ==
  ASSUME page = "submit", SubmitCore, Inside
  PROVE  \/ SubmitClick
         \/ \E c \in Requests : SubmitServe(c) \/ (c.kind = "submissions" /\ Replies(c, srv.submissions, srv))
                                \/ (Answer(c) # Waiting /\ SubmitArrive(c))
<1>1. \A c \in Requests : c.kind \in {"submissions", "suggest"}
  BY DEF SubmitCore, SubmitType, SubmitAsked
<1>2. DOMAIN srv = {"submissions", "listed"}
  BY DEF SubmitCore, SubmitType
<1>3. QED
  BY <1>1, <1>2 DEF Inside, Click, ServeSome, Serve, ServeRead, ArriveSome, Arrive, TimerSome, PosturePages, FilterPages,
       InstallUrlServed, DetailsServe, ReportServe, AgentServe, RegistryServe, NewItemServe

LEMMA SubmitSent ==
  ASSUME VisitType, SubmitType, NEW kept \in SUBSET Requests, NEW new, Sends(kept, new), \A r \in new : SubmitAsked(r, Waiting)
  PROVE  \A c \in Requests' : SubmitAsked(c, calls'[c])
<1>1. /\ \A c \in New(new) : \E r \in new : c.kind = r.kind /\ c.arg = r.arg
      /\ Requests' = kept \cup New(new)
      /\ \A c \in kept : calls'[c] = calls[c]
      /\ \A c \in New(new) : calls'[c] = Waiting
  BY NewFacts DEF Sends
<1>2. \A c \in New(new) : SubmitAsked(c, Waiting)
  BY <1>1 DEF SubmitAsked
<1>3. QED BY <1>1, <1>2 DEF SubmitType

\* What does not load the suggestions again.
LEMMA SubmitSame ==
  ASSUME VisitType, SubmitCore, NEW kept \in SUBSET Requests, NEW new, Sends(kept, new),
         \A o \in Requests : o \notin kept => o.kind # "submissions" /\ (~Answered(o) \/ st'.sent > 1),
         \A r \in new : SubmitAsked(r, Waiting) /\ r.kind # "submissions",
         srv' = srv, DOMAIN st' = DOMAIN st, st'.list = st.list, st'.sent \in Nat, st'.sent >= st.sent,
         st'.submitted = (st'.sent > 0), st'.url \in Urls \cup {None}
  PROVE  SubmitCore'
<1>1. \A c \in New(new) : \E r \in new : c.kind = r.kind /\ c.arg = r.arg
  BY NewFacts
<1>2. Requests' = kept \cup New(new) /\ (\A c \in kept : calls'[c] = calls[c]) /\ \A c \in New(new) : calls'[c] = Waiting
  BY DEF Sends
<1>3. SubmitType'
  BY SubmitSent DEF SubmitCore, SubmitType
<1>4. Listed(calls', "submissions")
  BY SendsListed DEF SubmitCore
<1>5. Suggesting => Suggesting' \/ st'.sent > 1
  BY <1>2 DEF Suggesting, Answered, Answer
<1>6. Latest(calls, "submissions", srv.submissions, st.list) => Latest(calls', "submissions", srv.submissions, st.list)
  BY KeepsLatest
<1>7. st.sent > 1 => st'.sent > 1
  BY DEF SubmitCore, SubmitType
<1>8. QED BY <1>3, <1>4, <1>5, <1>6, <1>7 DEF SubmitCore

\* Every step of a calm visit keeps it so.
LEMMA SubmitCalm ==
  ASSUME page = "submit", VisitType, SubmitCore, Inside, ~overtaken'
  PROVE  SubmitCore'
<1>1. /\ DOMAIN st = {"url", "submitting", "error", "submitted", "list", "sent"}
      /\ st.url \in Urls \cup {None} /\ st.sent \in Nat /\ st.submitted = (st.sent > 0) /\ st.list \in Submissions
      /\ DOMAIN srv = {"submissions", "listed"} /\ srv.submissions \in Submissions
      /\ \A c \in Requests : SubmitAsked(c, calls[c])
      /\ Listed(calls, "submissions")
  BY DEF SubmitCore, SubmitType
<1>2. CASE SubmitClick
  <2>1. Requests \ {} = Requests /\ Requests \in SUBSET Requests /\ \A r \in {} : SubmitAsked(r, Waiting) /\ r.kind # "submissions"
    OBVIOUS
  <2>2. ASSUME NEW u \in Urls, Acts([st EXCEPT !.url = u], {}, {})
        PROVE  SubmitCore'
    <3> DEFINE s == [st EXCEPT !.url = u]
    <3>1. DOMAIN s = DOMAIN st /\ s.list = st.list /\ s.sent = st.sent /\ s.submitted = st.submitted /\ s.url = u
      BY <1>1
    <3> HIDE DEF s
    <3>2. Sends(Requests, {}) /\ srv' = srv /\ st' = s
      BY <2>1, <2>2, ActsFacts DEF s
    <3>3. QED BY <1>1, <2>1, <3>1, <3>2, SubmitSame
  <2>3. CASE st.url # None /\ Acts([st EXCEPT !.submitting = TRUE, !.error = FALSE], {}, {Ask("suggest", st.url)})
    <3> DEFINE s == [st EXCEPT !.submitting = TRUE, !.error = FALSE]
               new == {Ask("suggest", st.url)}
    <3>1. DOMAIN s = DOMAIN st /\ s.list = st.list /\ s.sent = st.sent /\ s.submitted = st.submitted /\ s.url = st.url
      BY <1>1
    <3>2. \A r \in new : SubmitAsked(r, Waiting) /\ r.kind # "submissions"
      BY <1>1, <2>3 DEF Ask, SubmitAsked
    <3> HIDE DEF s, new
    <3>3. Sends(Requests, new) /\ srv' = srv /\ st' = s
      BY <2>1, <2>3, ActsFacts DEF s, new
    <3>4. QED BY <1>1, <2>1, <3>1, <3>2, <3>3, SubmitSame
  <2>4. QED BY <1>2, <2>2, <2>3 DEF SubmitClick
<1>3. ASSUME NEW c \in Requests, c.kind = "submissions", Replies(c, srv.submissions, srv)
      PROVE  SubmitCore'
  <2>1. /\ st' = st /\ srv' = srv /\ Requests' = Requests /\ calls[c] = Waiting
        /\ calls'[c] = srv.submissions /\ \A o \in Requests \ {c} : calls'[o] = calls[o]
    BY <1>3, RepliesFacts
  <2>2. SubmitType'
    BY <1>1, <1>3, <2>1 DEF SubmitType, SubmitAsked
  <2>3. Listed(calls', "submissions")
    BY <1>1, <2>1 DEF Listed, Requests
  <2>4. Suggesting => Suggesting'
    BY <1>3, <2>1 DEF Suggesting, Answered, Answer
  <2>5. Latest(calls, "submissions", srv.submissions, st.list) => Latest(calls', "submissions", srv.submissions, st.list)
    BY <1>3, RepliesLatest
  <2>6. QED BY <2>1, <2>2, <2>3, <2>4, <2>5 DEF SubmitCore
<1>4. ASSUME NEW c \in Requests, SubmitServe(c)
      PROVE  SubmitCore'
  <2>1. c.kind = "suggest" /\ c.arg \in Urls
    BY <1>1, <1>4 DEF SubmitServe, SubmitAsked
  <2>2. CASE Replies(c, Failed, srv)
    <3>1. /\ st' = st /\ srv' = srv /\ Requests' = Requests /\ calls[c] = Waiting
          /\ calls'[c] = Failed /\ \A o \in Requests \ {c} : calls'[o] = calls[o]
      BY <2>2, RepliesFacts
    <3>2. SubmitType'
      BY <1>1, <2>1, <3>1 DEF SubmitType, SubmitAsked
    <3>3. Listed(calls', "submissions")
      BY <1>1, <3>1 DEF Listed, Requests
    <3>4. Suggesting => Suggesting'
      BY <3>1 DEF Suggesting, Answered, Answer
    <3>5. Latest(calls, "submissions", srv.submissions, st.list) => Latest(calls', "submissions", srv.submissions, st.list)
      BY <2>1, <2>2, RepliesLatest
    <3>6. QED BY <3>1, <3>2, <3>3, <3>4, <3>5 DEF SubmitCore
  <2>3. CASE Replies(c, "ok", [srv EXCEPT !.submissions = @ \cup {[url |-> c.arg, status |-> "review"]}, !.listed = @ \cup {c.arg}])
    <3> DEFINE r == [srv EXCEPT !.submissions = @ \cup {[url |-> c.arg, status |-> "review"]}, !.listed = @ \cup {c.arg}]
    <3>1. DOMAIN r = DOMAIN srv /\ r.submissions = srv.submissions \cup {[url |-> c.arg, status |-> "review"]}
      BY <1>1
    <3>2. r.submissions \in Submissions
      BY <1>1, <2>1, <3>1 DEF Submissions, StatusPill
    <3> HIDE DEF r
    <3>3. /\ st' = st /\ srv' = r /\ Requests' = Requests
          /\ calls'[c] = "ok" /\ \A o \in Requests \ {c} : calls'[o] = calls[o]
      BY <2>3, RepliesFacts DEF r
    <3>4. SubmitType'
      BY <1>1, <2>1, <3>1, <3>2, <3>3 DEF SubmitType, SubmitAsked
    <3>5. Listed(calls', "submissions")
      BY <1>1, <3>3 DEF Listed, Requests
    <3>6. Suggesting'
      BY <2>1, <3>3, MarksAssumption DEF Suggesting, Answered, Answer, Marks
    <3>7. QED BY <3>4, <3>5, <3>6 DEF SubmitCore
  <2>4. QED BY <1>4, <2>2, <2>3 DEF SubmitServe
<1>5. ASSUME NEW c \in Requests, Answer(c) # Waiting, SubmitArrive(c)
      PROVE  SubmitCore'
  <2> DEFINE kept == Requests \ {c}
  <2>1. (Requests \ {c}) \ {} = kept /\ kept \in SUBSET Requests
        /\ (\A r \in {} : SubmitAsked(r, Waiting) /\ r.kind # "submissions") /\ \A o \in {} : o.kind # c.kind
    OBVIOUS
  <2>2. CASE c.kind = "suggest" /\ Threw(c) /\ Takes(c, [st EXCEPT !.submitting = FALSE, !.error = TRUE], {}, {})
    <3> DEFINE s == [st EXCEPT !.submitting = FALSE, !.error = TRUE]
    <3>1. DOMAIN s = DOMAIN st /\ s.list = st.list /\ s.sent = st.sent /\ s.submitted = st.submitted /\ s.url = st.url
      BY <1>1
    <3>2. \A o \in Requests : o \notin kept => o.kind # "submissions" /\ ~Answered(o)
      BY <2>2 DEF Threw, Answered
    <3> HIDE DEF s, kept
    <3>3. Sends(kept, {}) /\ srv' = srv /\ st' = s
      BY <2>1, <2>2, TakesFacts DEF s
    <3>4. QED BY <1>1, <2>1, <3>1, <3>2, <3>3, SubmitSame
  <2>3. ASSUME NEW new, c.kind = "suggest", new = IF st.submitted THEN {} ELSE Load({"submissions"}),
               Takes(c, [st EXCEPT !.submitting = FALSE, !.submitted = TRUE, !.url = None, !.sent = @ + 1], {}, new)
        PROVE  SubmitCore'
    <3> DEFINE n == st.sent + 1
               s == [st EXCEPT !.submitting = FALSE, !.submitted = TRUE, !.url = None, !.sent = n]
    <3>1. n \in Nat /\ n >= st.sent /\ TRUE = (n > 0) /\ (st.submitted => n > 1)
      <4>1. st.sent \in Nat /\ (st.submitted => st.sent > 0)
        BY <1>1
      <4>2. n \in Nat /\ n >= st.sent /\ n > 0 /\ (st.submitted => n > 1)
        BY <4>1
      <4> HIDE DEF n
      <4>3. QED BY <4>2
    <3>2. Takes(c, s, {}, new)
      BY <1>1, <2>3
    <3> HIDE DEF n
    <3>3. DOMAIN s = DOMAIN st /\ s.list = st.list /\ s.sent = n /\ s.submitted = TRUE /\ s.url = None
      BY <1>1
    <3> HIDE DEF s, kept
    <3>4. Sends(kept, new) /\ srv' = srv /\ st' = s
      BY <2>1, <3>2, TakesFacts
    <3>5. CASE st.submitted
      <4>1. new = {} /\ \A o \in Requests : o \notin kept => o.kind # "submissions"
        BY <2>3, <3>5 DEF kept
      <4>2. Sends(kept, {}) /\ st'.sent > 1 /\ st'.submitted = (st'.sent > 0)
        BY <3>3, <3>1, <3>4, <3>5, <4>1
      <4>3. \A o \in Requests : o \notin kept => o.kind # "submissions" /\ (~Answered(o) \/ st'.sent > 1)
        BY <4>1, <4>2
      <4>4. QED BY <1>1, <2>1, <3>3, <3>1, <3>4, <4>2, <4>3, SubmitSame
    <3>6. CASE ~st.submitted
      <4>1. new = {Ask("submissions", None)} /\ Ask("submissions", None).kind = "submissions"
        BY <2>3, <3>6, LoadOne DEF Ask
      <4>2. /\ \A r \in new : SubmitAsked(r, Waiting)
            /\ \A q, r \in new : q.kind = "submissions" /\ r.kind = "submissions" => q.arg = r.arg
        BY <4>1 DEF SubmitAsked
      <4>3. SubmitType'
        <5>1. \A o \in Requests' : SubmitAsked(o, calls'[o])
          BY <2>1, <3>4, <4>2, SubmitSent DEF SubmitCore
        <5>2. QED BY <1>1, <3>3, <3>1, <3>4, <5>1 DEF SubmitType
      <4>4. Listed(calls', "submissions")
        BY <1>1, <2>1, <3>4, <4>2, SendsListed
      <4>5. \A v, x : Latest(calls', "submissions", v, x)
        BY <2>1, <3>4, <4>1, AsksLatest
      <4>6. QED BY <4>3, <4>4, <4>5 DEF SubmitCore
    <3>7. QED BY <1>1, <3>5, <3>6
  <2>4. CASE SubmissionsArrive(c)
    <3> DEFINE x == IF Threw(c) THEN {} ELSE Answer(c)
               s == [st EXCEPT !.list = x]
    <3>1. DOMAIN s = DOMAIN st /\ s.list = x /\ s.sent = st.sent /\ s.submitted = st.submitted /\ s.url = st.url
      BY <1>1
    <3>2. c.kind = "submissions" /\ calls[c] \in {Failed} \cup Submissions /\ Takes(c, s, {}, {})
      BY <1>1, <1>5, <2>4 DEF SubmissionsArrive, SubmitAsked, Answer
    <3>3. x \in Submissions /\ (calls[c] = srv.submissions => x = srv.submissions)
      BY <1>1, <3>2, SubmissionsAssumption DEF Threw, Answer, Submissions, Marks
    <3> HIDE DEF s, x, kept
    <3>4. Sends(kept, {}) /\ srv' = srv /\ st' = s
      BY <2>1, <3>2, TakesFacts
    <3>5. Requests' = kept /\ \A o \in kept : calls'[o] = calls[o]
      BY <3>4, NumberedNone DEF Sends, New
    <3>6. SubmitType'
      BY <1>1, <2>1, <3>1, <3>3, <3>4, <3>5 DEF SubmitType
    <3>7. Listed(calls', "submissions")
      BY <1>1, <2>1, <3>4, SendsListed
    <3>8. Suggesting => Suggesting'
      BY <3>2, <3>5 DEF kept, Suggesting, Answered, Answer
    <3>9. ASSUME Latest(calls, "submissions", srv.submissions, st.list)
          PROVE  Latest(calls', "submissions", srv.submissions, x)
      <4>1. calls[c] # Waiting /\ Listed(calls, c.kind) /\ Latest(calls, c.kind, srv.submissions, st.list)
        BY <1>1, <1>5, <3>2, <3>9 DEF Answer
      <4>2. \A r \in {} : r.kind # c.kind
        OBVIOUS
      <4>3. Latest(calls', c.kind, srv.submissions, x)
        BY <2>1, <3>2, <3>3, <4>1, <4>2, TakesLatest
      <4>4. QED BY <3>2, <4>3
    <3>10. QED BY <3>1, <3>4, <3>6, <3>7, <3>8, <3>9 DEF SubmitCore
  <2>5. QED BY <1>5, <2>2, <2>3, <2>4 DEF SubmitArrive, Suggested
<1>6. QED BY <1>2, <1>3, <1>4, <1>5, SubmitSteps

\* It is so when the page is mounted.
LEMMA SubmitStart == SubmitInit => page = "submit" /\ SubmitCore
<1> SUFFICES ASSUME SubmitInit PROVE page = "submit" /\ SubmitCore
  OBVIOUS
<1> DEFINE s == [url |-> None, submitting |-> FALSE, error |-> FALSE, submitted |-> FALSE, list |-> {}, sent |-> 0]
           records == [submissions : {{}, {[url |-> "u1", status |-> "rejected"]}}, listed : SUBSET {"u2"}]
           new == Load({"submissions"})
<1>1. Mounted("submit", s, new, records)
  BY DEF SubmitInit
<1>2. /\ DOMAIN s = {"url", "submitting", "error", "submitted", "list", "sent"}
      /\ s.url = None /\ s.sent = 0 /\ s.submitted = FALSE /\ s.list = {}
  OBVIOUS
<1>3. ASSUME NEW r \in records PROVE DOMAIN r = {"submissions", "listed"} /\ r.submissions \in Submissions
  <2>1. [url |-> "u1", status |-> "rejected"] \in [url : Urls, status : DOMAIN StatusPill]
    BY DEF Urls, StatusPill
  <2>2. QED BY <2>1 DEF Submissions
<1>4. new = {Ask("submissions", None)} /\ Ask("submissions", None).kind = "submissions"
  BY LoadOne DEF Ask
<1> HIDE DEF s, records, new
<1>5. page = "submit" /\ st = s /\ srv \in records /\ \A c \in Requests : calls[c] = Waiting /\ \E q \in new : c.kind = q.kind
  BY <1>1, MountedFacts
<1>6. \A q, r \in new : q.kind = "submissions" /\ r.kind = "submissions" => q.arg = r.arg
  BY <1>4
<1>7. Listed(calls, "submissions") /\ \A v, x : Latest(calls, "submissions", v, x)
  BY <1>1, <1>4, <1>6, MountedLatest
<1>8. \A c \in Requests : SubmitAsked(c, calls[c])
  BY <1>4, <1>5 DEF SubmitAsked
<1>9. {} \in Submissions /\ (FALSE = (0 > 0)) /\ 0 \in Nat
  BY DEF Submissions
<1>10. QED BY <1>2, <1>3, <1>5, <1>7, <1>8, <1>9 DEF SubmitCore, SubmitType

\* Once everything is answered, the page shows what is true.
LEMMA SubmitEnd == ASSUME SubmitCore, Settled PROVE SubmitTrue
<1>1. st.sent > 1 \/ st.list = srv.submissions
  BY LatestSettled DEF SubmitCore, Suggesting, Settled
<1>2. st.sent \in Nat
  BY DEF SubmitCore, SubmitType
<1>3. {r.url : r \in SubmissionRows} = {s.url : s \in st.list}
  <2> DEFINE Row(s) == [url |-> s.url, pill |-> StatusPill[s.status], link |-> s.status = "published"]
  <2>1. \A s : Row(s).url = s.url
    OBVIOUS
  <2>2. SubmissionRows = {Row(s) : s \in st.list}
    BY DEF SubmissionRows
  <2> HIDE DEF Row
  <2>3. QED BY <2>1, <2>2
<1>4. QED BY <1>1, <1>2, <1>3 DEF SubmitTrue

-----------------------------------------------------------------------------
(* A new item *)

\* An item was created exactly where the reader has been sent to its editor, or
\* will be.
NewItemCore ==
  /\ DOMAIN st = {"at", "source", "title", "busy", "error"} /\ DOMAIN srv = {"readable", "created"}
  /\ \A c \in Requests : c.kind = "create" /\ (Answered(c) => srv.created # {})
  /\ st.at = "editor" => srv.created # {}
  /\ srv.created # {} => st.at = "editor" \/ \E c \in Requests : Answered(c)

\* The steps that this page takes while nobody else does anything.
LEMMA NewItemSteps ==
  ASSUME page = "newItem", NewItemCore, Inside
  PROVE  NewItemClick \/ \E c \in Requests : NewItemServe(c) \/ (Answer(c) # Waiting /\ ItemCreated(c))
<1>1. \A c \in Requests : c.kind = "create"
  BY DEF NewItemCore
<1>2. DOMAIN srv = {"readable", "created"}
  BY DEF NewItemCore
<1>3. QED
  BY <1>1, <1>2 DEF Inside, Click, ServeSome, Serve, ServeRead, ArriveSome, Arrive, TimerSome, PosturePages, FilterPages,
       InstallUrlServed, DetailsServe, ReportServe, AgentServe, RegistryServe, SubmitServe

\* Every step of a calm visit keeps it so.
LEMMA NewItemCalm ==
  ASSUME page = "newItem", VisitType, NewItemCore, Inside
  PROVE  NewItemCore'
<1>1. /\ DOMAIN st = {"at", "source", "title", "busy", "error"} /\ DOMAIN srv = {"readable", "created"}
      /\ \A c \in Requests : c.kind = "create" /\ (Answered(c) => srv.created # {})
  BY DEF NewItemCore
<1>2. ASSUME NEW kept \in SUBSET Requests, NEW new, Sends(kept, new), srv' = srv, \A r \in new : r.kind = "create",
             DOMAIN st' = DOMAIN st, st'.at = "editor" => srv.created # {},
             st.at = "editor" \/ (\E c \in Requests \ kept : Answered(c)) => st'.at = "editor"
      PROVE  NewItemCore'
  <2>1. \A c \in New(new) : c.kind = "create"
    BY <1>2, NewFacts
  <2>2. Requests' = kept \cup New(new) /\ (\A c \in kept : calls'[c] = calls[c]) /\ \A c \in New(new) : calls'[c] = Waiting
    BY <1>2 DEF Sends
  <2>3. \A c \in Requests' : c.kind = "create" /\ (Answered(c)' => srv.created # {})
    BY <1>1, <2>1, <2>2 DEF Answered, Answer
  <2>4. \A c \in kept : Answered(c) => Answered(c)'
    BY <2>2 DEF Answered, Answer
  <2>5. srv.created # {} => st'.at = "editor" \/ \E c \in Requests' : Answered(c)'
    BY <1>2, <2>2, <2>4 DEF NewItemCore
  <2>6. QED BY <1>1, <1>2, <2>3, <2>5 DEF NewItemCore
<1>3. CASE NewItemClick
  <2>1. Requests \ {} = Requests /\ Requests \in SUBSET Requests /\ \A r \in {} : r.kind = "create"
    OBVIOUS
  <2>2. ASSUME NEW s, NEW new, Acts(s, {}, new), \A r \in new : r.kind = "create", DOMAIN s = DOMAIN st, s.at = st.at
        PROVE  NewItemCore'
    <3>1. Sends(Requests, new) /\ srv' = srv /\ st' = s
      BY <2>1, <2>2, ActsFacts
    <3>2. ~\E c \in Requests \ Requests : Answered(c)
      OBVIOUS
    <3>3. QED BY <1>2, <2>1, <2>2, <3>1, <3>2 DEF NewItemCore
  <2>3. CASE Acts([st EXCEPT !.source = "url"], {}, {})
    <3> DEFINE s == [st EXCEPT !.source = "url"]
    <3>1. DOMAIN s = DOMAIN st /\ s.at = st.at /\ Acts(s, {}, {})
      BY <1>1, <2>3
    <3> HIDE DEF s
    <3>2. QED BY <2>1, <2>2, <3>1
  <2>4. CASE Acts([st EXCEPT !.title = "name"], {}, {})
    <3> DEFINE s == [st EXCEPT !.title = "name"]
    <3>1. DOMAIN s = DOMAIN st /\ s.at = st.at /\ Acts(s, {}, {})
      BY <1>1, <2>4
    <3> HIDE DEF s
    <3>2. QED BY <2>1, <2>2, <3>1
  <2>5. CASE Acts([st EXCEPT !.busy = TRUE, !.error = FALSE], {}, {Ask("create", [source |-> st.source, title |-> st.title])})
    <3> DEFINE s == [st EXCEPT !.busy = TRUE, !.error = FALSE]
               new == {Ask("create", [source |-> st.source, title |-> st.title])}
    <3>1. DOMAIN s = DOMAIN st /\ s.at = st.at /\ Acts(s, {}, new)
      BY <1>1, <2>5
    <3>2. \A r \in new : r.kind = "create"
      BY DEF Ask
    <3> HIDE DEF s, new
    <3>3. QED BY <2>2, <3>1, <3>2
  <2>6. QED BY <1>3, <2>3, <2>4, <2>5 DEF NewItemClick
<1>4. ASSUME NEW c \in Requests, NewItemServe(c)
      PROVE  NewItemCore'
  <2>1. CASE Replies(c, Failed, srv)
    <3>1. /\ st' = st /\ srv' = srv /\ Requests' = Requests /\ calls[c] = Waiting /\ calls'[c] = Failed
          /\ \A o \in Requests \ {c} : calls'[o] = calls[o]
      BY <2>1, RepliesFacts
    <3>2. \A o \in Requests : Answered(o) <=> Answered(o)'
      BY <3>1 DEF Answered, Answer
    <3>3. QED BY <3>1, <3>2 DEF NewItemCore
  <2>2. CASE Replies(c, "ok", [srv EXCEPT !.created = @ \cup {c.arg}])
    <3> DEFINE r == [srv EXCEPT !.created = @ \cup {c.arg}]
    <3>1. DOMAIN r = DOMAIN srv /\ c.arg \in r.created
      BY <1>1
    <3> HIDE DEF r
    <3>2. st' = st /\ srv' = r /\ Requests' = Requests /\ calls'[c] = "ok"
      BY <2>2, RepliesFacts DEF r
    <3>3. Answered(c)'
      BY <3>2, MarksAssumption DEF Answered, Answer, Marks
    <3>4. QED BY <1>1, <3>1, <3>2, <3>3 DEF NewItemCore
  <2>3. QED BY <1>4, <2>1, <2>2 DEF NewItemServe
<1>5. ASSUME NEW c \in Requests, Answer(c) # Waiting, ItemCreated(c)
      PROVE  NewItemCore'
  <2> DEFINE kept == Requests \ {c}
  <2>1. (Requests \ {c}) \ {} = kept /\ kept \in SUBSET Requests /\ (\A r \in {} : r.kind = "create")
        /\ \A o \in Requests \ kept : o = c
    OBVIOUS
  <2>2. ASSUME NEW s, Takes(c, s, {}, {}), DOMAIN s = DOMAIN st,
               IF Threw(c) THEN s.at = st.at ELSE s.at = "editor"
        PROVE  NewItemCore'
    <3>1. Sends(kept, {}) /\ srv' = srv /\ st' = s
      BY <2>1, <2>2, TakesFacts
    <3>2. Answered(c) <=> ~Threw(c)
      BY <1>5 DEF Answered, Threw
    <3>3. s.at = "editor" => srv.created # {}
      BY <1>1, <2>2, <3>2 DEF NewItemCore
    <3>4. st.at = "editor" \/ (\E o \in Requests \ kept : Answered(o)) => s.at = "editor"
      BY <2>1, <2>2, <3>2
    <3> HIDE DEF kept
    <3>5. QED BY <1>2, <2>1, <2>2, <3>1, <3>3, <3>4
  <2>3. CASE Threw(c)
    <3> DEFINE s == [st EXCEPT !.busy = FALSE, !.error = TRUE]
    <3>1. DOMAIN s = DOMAIN st /\ s.at = st.at /\ Takes(c, s, {}, {})
      BY <1>1, <1>5, <2>3 DEF ItemCreated
    <3> HIDE DEF s
    <3>2. QED BY <2>2, <2>3, <3>1
  <2>4. CASE ~Threw(c)
    <3> DEFINE s == [st EXCEPT !.at = "editor"]
    <3>1. DOMAIN s = DOMAIN st /\ s.at = "editor" /\ Takes(c, s, {}, {})
      BY <1>1, <1>5, <2>4 DEF ItemCreated
    <3> HIDE DEF s
    <3>2. QED BY <2>2, <2>4, <3>1
  <2>5. QED BY <2>3, <2>4
<1>6. QED BY <1>3, <1>4, <1>5, NewItemSteps

\* It is so when the page is mounted.
LEMMA NewItemStart == NewItemInit => page = "newItem" /\ NewItemCore
<1> SUFFICES ASSUME NewItemInit PROVE page = "newItem" /\ NewItemCore
  OBVIOUS
<1> DEFINE s == [at |-> "here", source |-> None, title |-> None, busy |-> FALSE, error |-> FALSE]
           records == {[readable |-> r, created |-> {}] : r \in BOOLEAN}
<1>1. Mounted("newItem", s, {}, records)
  BY DEF NewItemInit
<1>2. DOMAIN s = {"at", "source", "title", "busy", "error"} /\ s.at = "here"
  OBVIOUS
<1>3. \A r \in records : DOMAIN r = {"readable", "created"} /\ r.created = {}
  OBVIOUS
<1> HIDE DEF s, records
<1>4. page = "newItem" /\ st = s /\ srv \in records /\ Requests = {}
  BY <1>1, MountedFacts, NumberedNone
<1>5. QED BY <1>2, <1>3, <1>4 DEF NewItemCore

\* Once everything is answered, the page shows what is true.
LEMMA NewItemEnd == ASSUME NewItemCore, Settled PROVE NewItemTrue
BY DEF NewItemCore, NewItemTrue, Settled

-----------------------------------------------------------------------------
(* The editor of an item *)

Writes == {"patch", "setItemStatus", "refresh", "setLinks"}

\* A request of the editor is made of what its form and its tabs hold. A patch
\* never holds the description, which only a colleague edits, and holds the
\* documentation if this reader has typed into the content.
EditorAsk(r, w) ==
  /\ r.kind \in Writes \cup {"remove"}
  /\ r.kind = "patch" => /\ DOMAIN r.arg \subseteq Fields \ {"description"}
                         /\ \A f \in DOMAIN r.arg : r.arg[f] \in Texts
                         /\ "documentation" \in DOMAIN r.arg => w
  /\ r.kind = "setItemStatus" => r.arg \in Stages
  /\ r.kind = "setLinks" => r.arg \in SUBSET {"x", "y"}

EditorAsked(c, a, w) ==
  \/ c.kind = "item" /\ a \in {Waiting, Failed} \cup Records
  \/ EditorAsk(c, w)

EditorState(s) ==
  /\ DOMAIN s = {"at", "raw", "form", "failed", "busy", "told", "tab", "links", "saving", "delete", "rewrote"}
  /\ s.links \in SUBSET {"x", "y"} /\ s.rewrote \in BOOLEAN
  /\ s.raw = NoData \/ /\ s.raw \in Records /\ s.form \in [Fields -> Texts]
                       /\ \A f \in {"description", "usage", "documentation"} :
                            (KeyOf[f] = "content" /\ s.rewrote) \/ s.form[f] = s.raw.fields[f]

EditorSrv(r) ==
  DOMAIN r = {"item", "there", "theirs"} /\ r.item \in Records /\ r.there \in BOOLEAN /\ r.theirs \in SUBSET Theirs

\* Whatever fails and whoever writes.
EditorKept ==
  /\ EditorState(st) /\ EditorSrv(srv)
  /\ \A c \in Requests : EditorAsked(c, calls[c], st.rewrote)
  /\ ColleagueKept

LEMMA KeyFacts ==
  /\ Fields = {"title", "recipe", "description", "usage", "documentation"}
  /\ \A f \in Fields : KeyOf[f] = "content" <=> f \in {"usage", "documentation"}
  /\ \A f \in Fields : KeyOf[f] = "description" <=> f = "description"
<1> DEFINE k == KeyOf
<1>1. /\ k["title"] = "title" /\ k["recipe"] = "installation" /\ k["description"] = "description"
      /\ k["usage"] = "content" /\ k["documentation"] = "content"
      /\ DOMAIN k = {"title", "recipe", "description", "usage", "documentation"}
  BY DEF KeyOf
<1> HIDE DEF k
<1>2. Fields = DOMAIN k
  BY DEF Fields, k
<1>3. \A f \in Fields : k[f] = "content" <=> f \in {"usage", "documentation"}
  BY <1>1, <1>2
<1>4. \A f \in Fields : k[f] = "description" <=> f = "description"
  BY <1>1, <1>2
<1>5. QED BY <1>1, <1>2, <1>3, <1>4 DEF k

\* The steps that this page takes while nobody else does anything.
LEMMA EditorSteps ==
  ASSUME page = "itemEditor", EditorKept
  PROVE  /\ Inside => EditorClick \/ \E c \in Requests : EditorServe(c) \/ (Answer(c) # Waiting /\ EditorArrive(c))
         /\ Next => Inside \/ EditorElsewhere \/ \E c \in Requests : Fail(c)
<1>1. \A c \in Requests : c.kind \in {"item", "patch", "setItemStatus", "refresh", "setLinks", "remove"}
  BY DEF EditorKept, EditorAsked, EditorAsk, Writes
<1>2. Inside => EditorClick \/ \E c \in Requests : EditorServe(c) \/ (Answer(c) # Waiting /\ EditorArrive(c))
  BY <1>1 DEF Inside, Click, ServeSome, Serve, ArriveSome, Arrive, TimerSome, PosturePages, FilterPages,
       InstallUrlServed, DetailsServe, ReportServe, AgentServe, RegistryServe, SubmitServe, NewItemServe
<1>3. Next => Inside \/ EditorElsewhere \/ \E c \in Requests : Fail(c)
  BY DEF Next, Inside, FailSome, Others, PosturePages
<1>4. QED BY <1>2, <1>3

\* What of the state a step leaves alone.
EditorSame(s) ==
  EditorState(s) /\ s.raw = st.raw /\ s.at = st.at /\ s.failed = st.failed /\ (st.rewrote => s.rewrote)

LEMMA EditorClicks ==
  ASSUME EditorKept, EditorClick
  PROVE  \E s, new : Acts(s, {}, new) /\ EditorSame(s) /\ \A r \in new : EditorAsk(r, st.rewrote)
<1>1. /\ DOMAIN st = {"at", "raw", "form", "failed", "busy", "told", "tab", "links", "saving", "delete", "rewrote"}
      /\ st.links \in SUBSET {"x", "y"} /\ st.raw # NoData
      /\ st.raw \in Records /\ st.form \in [Fields -> Texts] /\ st.rewrote \in BOOLEAN
      /\ \A f \in {"description", "usage", "documentation"} :
           (KeyOf[f] = "content" /\ st.rewrote) \/ st.form[f] = st.raw.fields[f]
  BY DEF EditorKept, EditorState, EditorClick, EditorOpen
<1>2. st.raw.links \in SUBSET {"x", "y"} /\ st.raw.status \in Stages
  BY <1>1 DEF Records
<1>3. ASSUME NEW s, NEW new, Acts(s, {}, new), EditorSame(s), \A r \in new : EditorAsk(r, st.rewrote)
      PROVE  \E t, n : Acts(t, {}, n) /\ EditorSame(t) /\ \A r \in n : EditorAsk(r, st.rewrote)
  BY <1>3
<1>4. \A r \in {} : EditorAsk(r, st.rewrote)
  OBVIOUS
\* What touches neither the form nor the links.
<1>5. ASSUME NEW s, DOMAIN s = DOMAIN st, s.raw = st.raw, s.at = st.at, s.failed = st.failed, s.form = st.form, s.links = st.links, s.rewrote = st.rewrote
      PROVE  EditorSame(s)
  BY <1>1, <1>5 DEF EditorSame, EditorState
<1>6. ASSUME NEW d, NEW new, Acts([st EXCEPT !.delete = d], {}, new), \A r \in new : EditorAsk(r, st.rewrote)
      PROVE  \E t, n : Acts(t, {}, n) /\ EditorSame(t) /\ \A r \in n : EditorAsk(r, st.rewrote)
  <2> DEFINE s == [st EXCEPT !.delete = d]
  <2>1. DOMAIN s = DOMAIN st /\ s.raw = st.raw /\ s.at = st.at /\ s.failed = st.failed /\ s.form = st.form /\ s.links = st.links /\ s.rewrote = st.rewrote
    BY <1>1
  <2>2. Acts(s, {}, new)
    BY <1>6
  <2> HIDE DEF s
  <2>3. EditorSame(s)
    BY <1>5, <2>1
  <2>4. QED BY <1>3, <1>6, <2>2, <2>3
<1>7. ASSUME NEW key, NEW kind, NEW arg, EditorAct(key, kind, arg), EditorAsk(Ask(kind, arg), st.rewrote)
      PROVE  \E t, n : Acts(t, {}, n) /\ EditorSame(t) /\ \A r \in n : EditorAsk(r, st.rewrote)
  <2> DEFINE s == [st EXCEPT !.busy = key, !.told = None]
             new == {Ask(kind, arg)}
  <2>1. DOMAIN s = DOMAIN st /\ s.raw = st.raw /\ s.at = st.at /\ s.failed = st.failed /\ s.form = st.form /\ s.links = st.links /\ s.rewrote = st.rewrote
    BY <1>1
  <2>2. Acts(s, {}, new) /\ \A r \in new : EditorAsk(r, st.rewrote)
    BY <1>7 DEF EditorAct
  <2> HIDE DEF s, new
  <2>3. EditorSame(s)
    BY <1>5, <2>1
  <2>4. QED BY <1>3, <2>2, <2>3
<1>8. ASSUME NEW n, Acts([st EXCEPT !.told = n], {}, {})
      PROVE  \E t, m : Acts(t, {}, m) /\ EditorSame(t) /\ \A r \in m : EditorAsk(r, st.rewrote)
  <2> DEFINE s == [st EXCEPT !.told = n]
  <2>1. DOMAIN s = DOMAIN st /\ s.raw = st.raw /\ s.at = st.at /\ s.failed = st.failed /\ s.form = st.form /\ s.links = st.links /\ s.rewrote = st.rewrote
    BY <1>1
  <2>2. Acts(s, {}, {})
    BY <1>8
  <2> HIDE DEF s
  <2>3. EditorSame(s)
    BY <1>5, <2>1
  <2>4. QED BY <1>3, <1>4, <2>2, <2>3
<1>9. CASE Save
  <2>1. EditorAsk(Ask("patch", Patch), st.rewrote)
    <3>1. Changed \subseteq Fields /\ \A f \in Changed : st.form[f] # st.raw.fields[f]
      BY DEF Changed
    <3>2. "description" \notin Carried /\ Carried \subseteq Fields /\ ("documentation" \in Carried => st.rewrote)
      <4>1. "description" \in Fields /\ "documentation" \in Fields
        BY KeyFacts
      <4>2. ASSUME "description" \in Carried PROVE FALSE
        <5>1. PICK g \in Changed : KeyOf["description"] = KeyOf[g]
          BY <4>2 DEF Carried
        <5>2. g = "description"
          BY <3>1, <4>1, <5>1, KeyFacts
        <5>3. KeyOf["description"] # "content"
          BY <4>1, KeyFacts
        <5>4. QED BY <1>1, <3>1, <5>2, <5>3
      <4>3. ASSUME "documentation" \in Carried PROVE st.rewrote
        <5>1. PICK g \in Changed : KeyOf["documentation"] = KeyOf[g]
          BY <4>3 DEF Carried
        <5>2. g \in {"usage", "documentation"}
          BY <3>1, <4>1, <5>1, KeyFacts
        <5>3. QED BY <1>1, <3>1, <5>2
      <4>4. Carried \subseteq Fields
        BY DEF Carried
      <4>5. QED BY <4>2, <4>3, <4>4
    <3>3. DOMAIN Patch = Carried /\ \A f \in Carried : Patch[f] \in Texts
      BY <1>1, <3>2 DEF Patch
    <3>4. Ask("patch", Patch).kind = "patch" /\ Ask("patch", Patch).arg = Patch
      BY DEF Ask
    <3>5. QED BY <3>2, <3>3, <3>4 DEF EditorAsk, Writes
  <2>2. CASE EditorAct("save", "patch", Patch)
    BY <1>7, <2>1, <2>2
  <2>3. QED BY <1>8, <1>9, <2>2 DEF Save
<1>10. ASSUME NEW f \in DOMAIN Written, NEW v \in Written[f],
              Acts([st EXCEPT !.form[f] = v, !.rewrote = @ \/ KeyOf[f] = "content"], {}, {})
       PROVE  \E t, m : Acts(t, {}, m) /\ EditorSame(t) /\ \A r \in m : EditorAsk(r, st.rewrote)
  <2> DEFINE g == [st.form EXCEPT ![f] = v]
             b == st.rewrote \/ KeyOf[f] = "content"
             s == [st EXCEPT !.form[f] = v, !.rewrote = @ \/ KeyOf[f] = "content"]
  <2>1. f \in {"title", "recipe", "usage"} /\ v \in Texts /\ f \in Fields
    <3>1. /\ Written["title"] = {"old", "new", "empty"} /\ Written["recipe"] = {"old", "new", "not json"}
          /\ Written["usage"] = {"old", "new"} /\ DOMAIN Written = {"title", "recipe", "usage"}
      BY DEF Written
    <3>2. f = "title" \/ f = "recipe" \/ f = "usage"
      BY <3>1
    <3>3. QED BY <3>1, <3>2, KeyFacts DEF Texts
  <2>2. g \in [Fields -> Texts] /\ b \in BOOLEAN /\ \A o \in Fields : o # f => g[o] = st.form[o]
    BY <1>1, <2>1
  <2>3. DOMAIN s = DOMAIN st /\ s.raw = st.raw /\ s.at = st.at /\ s.failed = st.failed /\ s.form = g /\ s.links = st.links /\ s.rewrote = b
    BY <1>1
  <2>4. Acts(s, {}, {})
    BY <1>10
  <2>5. (st.rewrote => b) /\ (f = "usage" => b)
    BY <2>1, KeyFacts
  <2> HIDE DEF s, g, b
  <2>6. \A o \in {"description", "usage", "documentation"} : (KeyOf[o] = "content" /\ b) \/ g[o] = st.raw.fields[o]
    <3>1. ASSUME NEW o \in {"description", "usage", "documentation"}
          PROVE  (KeyOf[o] = "content" /\ b) \/ g[o] = st.raw.fields[o]
      <4>1. o \in Fields
        BY KeyFacts
      <4>2. CASE o = f
        BY <2>1, <2>5, <4>1, <4>2, KeyFacts
      <4>3. CASE o # f
        BY <1>1, <2>2, <2>5, <4>1, <4>3
      <4>4. QED BY <4>2, <4>3
    <3>2. QED BY <3>1
  <2>7. EditorState(s)
    BY <1>1, <2>2, <2>3, <2>6 DEF EditorState
  <2>8. EditorSame(s)
    BY <2>3, <2>5, <2>7 DEF EditorSame
  <2>9. QED BY <1>3, <1>4, <2>4, <2>8
<1>11. ASSUME NEW k, NEW l \in SUBSET {"x", "y"}, Acts([st EXCEPT !.tab = k, !.links = l], {}, {}) \/ Acts([st EXCEPT !.links = l], {}, {})
       PROVE  \E t, m : Acts(t, {}, m) /\ EditorSame(t) /\ \A r \in m : EditorAsk(r, st.rewrote)
  <2> DEFINE s == [st EXCEPT !.tab = k, !.links = l]
             u == [st EXCEPT !.links = l]
  <2>1. DOMAIN s = DOMAIN st /\ s.raw = st.raw /\ s.at = st.at /\ s.failed = st.failed /\ s.form = st.form /\ s.links = l /\ s.rewrote = st.rewrote
    BY <1>1
  <2>2. DOMAIN u = DOMAIN st /\ u.raw = st.raw /\ u.at = st.at /\ u.failed = st.failed /\ u.form = st.form /\ u.links = l /\ u.rewrote = st.rewrote
    BY <1>1
  <2>3. Acts(s, {}, {}) \/ Acts(u, {}, {})
    BY <1>11
  <2> HIDE DEF s, u
  <2>4. EditorSame(s) /\ EditorSame(u)
    BY <1>1, <2>1, <2>2 DEF EditorSame, EditorState
  <2>5. QED BY <1>3, <1>4, <2>3, <2>4
<1>12. CASE Acts([st EXCEPT !.saving = TRUE], {}, {Ask("setLinks", st.links)})
  <2> DEFINE s == [st EXCEPT !.saving = TRUE]
             new == {Ask("setLinks", st.links)}
  <2>1. DOMAIN s = DOMAIN st /\ s.raw = st.raw /\ s.at = st.at /\ s.failed = st.failed /\ s.form = st.form /\ s.links = st.links /\ s.rewrote = st.rewrote
    BY <1>1
  <2>2. EditorAsk(Ask("setLinks", st.links), st.rewrote)
    BY <1>1 DEF EditorAsk, Ask, Writes
  <2>3. Acts(s, {}, new) /\ \A r \in new : EditorAsk(r, st.rewrote)
    BY <1>12, <2>2
  <2> HIDE DEF s, new
  <2>4. EditorSame(s)
    BY <1>5, <2>1
  <2>5. QED BY <1>3, <2>3, <2>4
<1>13. ASSUME NEW t \in Lifecycle(st.raw.status), EditorAct(t, "setItemStatus", t)
       PROVE  \E u, m : Acts(u, {}, m) /\ EditorSame(u) /\ \A r \in m : EditorAsk(r, st.rewrote)
  <2>1. EditorAsk(Ask("setItemStatus", t), st.rewrote)
    BY DEF EditorAsk, Ask, Lifecycle, Writes
  <2>2. QED BY <1>7, <1>13, <2>1
<1>14. CASE EditorAct("refresh", "refresh", None)
  <2>1. EditorAsk(Ask("refresh", None), st.rewrote)
    BY DEF EditorAsk, Ask, Writes
  <2>2. QED BY <1>7, <1>14, <2>1
<1>15. \A r \in Load({"remove"}) : EditorAsk(r, st.rewrote)
  BY LoadFacts DEF EditorAsk
<1>16. CASE st.delete.open
  <2>1. \/ Acts([st EXCEPT !.delete = [st.delete EXCEPT !.typed = TRUE]], {}, {})
        \/ Acts([st EXCEPT !.delete = [st.delete EXCEPT !.busy = TRUE]], {}, Load({"remove"}))
        \/ Acts([st EXCEPT !.delete = [st.delete EXCEPT !.open = FALSE]], {}, {})
        \/ Acts([st EXCEPT !.delete = [Closed EXCEPT !.busy = st.delete.busy]], {}, {})
    BY <1>16 DEF EditorClick
  <2>2. QED BY <1>4, <1>6, <1>15, <2>1
<1>17. CASE ~st.delete.open
  <2>1. \/ \E f \in DOMAIN Written : \E v \in Written[f] :
             Acts([st EXCEPT !.form[f] = v, !.rewrote = @ \/ KeyOf[f] = "content"], {}, {})
        \/ Save
        \/ \E t \in Lifecycle(st.raw.status) : EditorAct(t, "setItemStatus", t)
        \/ EditorAct("refresh", "refresh", None)
        \/ Acts([st EXCEPT !.tab = "links", !.links = st.raw.links], {}, {})
        \/ \E l \in {{}, {"x"}, {"x", "y"}} : Acts([st EXCEPT !.links = l], {}, {})
        \/ Acts([st EXCEPT !.saving = TRUE], {}, {Ask("setLinks", st.links)})
        \/ Acts([st EXCEPT !.delete = [st.delete EXCEPT !.open = TRUE]], {}, {})
    BY <1>17 DEF EditorClick
  <2>2. CASE Acts([st EXCEPT !.tab = "links", !.links = st.raw.links], {}, {})
    BY <1>2, <1>11, <2>2
  <2>3. ASSUME NEW l \in {{}, {"x"}, {"x", "y"}}, Acts([st EXCEPT !.links = l], {}, {})
        PROVE  \E t, m : Acts(t, {}, m) /\ EditorSame(t) /\ \A r \in m : EditorAsk(r, st.rewrote)
    BY <1>11, <2>3
  <2>4. CASE Acts([st EXCEPT !.delete = [st.delete EXCEPT !.open = TRUE]], {}, {})
    <3> DEFINE d == [st.delete EXCEPT !.open = TRUE]
    <3>1. Acts([st EXCEPT !.delete = d], {}, {})
      BY <2>4
    <3> HIDE DEF d
    <3>2. QED BY <1>4, <1>6, <3>1
  <2>5. ASSUME \E f \in DOMAIN Written : \E v \in Written[f] :
                  Acts([st EXCEPT !.form[f] = v, !.rewrote = @ \/ KeyOf[f] = "content"], {}, {})
        PROVE  \E t, m : Acts(t, {}, m) /\ EditorSame(t) /\ \A r \in m : EditorAsk(r, st.rewrote)
    BY <1>10, <2>5
  <2>6. ASSUME \E t \in Lifecycle(st.raw.status) : EditorAct(t, "setItemStatus", t)
        PROVE  \E t, m : Acts(t, {}, m) /\ EditorSame(t) /\ \A r \in m : EditorAsk(r, st.rewrote)
    BY <1>13, <2>6
  <2>7. ASSUME \E l \in {{}, {"x"}, {"x", "y"}} : Acts([st EXCEPT !.links = l], {}, {})
        PROVE  \E t, m : Acts(t, {}, m) /\ EditorSame(t) /\ \A r \in m : EditorAsk(r, st.rewrote)
    BY <2>3, <2>7
  <2>8. QED BY <1>9, <1>12, <1>14, <2>1, <2>2, <2>4, <2>5, <2>6, <2>7
<1>18. QED BY <1>16, <1>17

\* How an answer leaves the editor.
LEMMA EditorArrives ==
  ASSUME EditorKept, NEW c \in Requests, Answer(c) # Waiting, EditorArrive(c)
  PROVE  \/ \E s : /\ c.kind = "item" /\ ~Threw(c) /\ Takes(c, s, {}, {})
                   /\ EditorState(s) /\ s.raw = Answer(c) /\ s.at = st.at /\ s.failed = st.failed /\ s.rewrote = st.rewrote
         \/ \E s : /\ c.kind = "item" /\ Threw(c) /\ Takes(c, s, {}, {})
                   /\ EditorState(s) /\ s.raw = st.raw /\ s.at = st.at /\ s.failed /\ s.rewrote = st.rewrote
         \/ \E s : c.kind # "item" /\ Threw(c) /\ Takes(c, s, {}, {}) /\ EditorSame(s)
         \/ \E s : c.kind \in Writes /\ Takes(c, s, Asking({"item"}), Load({"item"})) /\ EditorSame(s)
         \/ \E s : /\ c.kind = "remove" /\ ~Threw(c) /\ Takes(c, s, {}, {})
                   /\ EditorState(s) /\ s.raw = st.raw /\ s.failed = st.failed /\ s.at = "registry" /\ s.rewrote = st.rewrote
<1>1. /\ DOMAIN st = {"at", "raw", "form", "failed", "busy", "told", "tab", "links", "saving", "delete", "rewrote"}
      /\ EditorState(st) /\ EditorAsked(c, calls[c], st.rewrote)
  BY DEF EditorKept, EditorState
\* What touches neither the form nor the links.
<1>2. ASSUME NEW s, DOMAIN s = DOMAIN st, s.raw = st.raw, s.form = st.form, s.links = st.links, s.rewrote = st.rewrote
      PROVE  EditorState(s)
  BY <1>1, <1>2 DEF EditorState
<1>3. CASE ItemLoaded(c) /\ Threw(c)
  <2> DEFINE s == [st EXCEPT !.failed = TRUE]
  <2>1. DOMAIN s = DOMAIN st /\ s.raw = st.raw /\ s.form = st.form /\ s.links = st.links /\ s.rewrote = st.rewrote /\ s.at = st.at /\ s.failed
    BY <1>1
  <2>2. c.kind = "item" /\ Takes(c, s, {}, {})
    BY <1>3 DEF ItemLoaded
  <2> HIDE DEF s
  <2>3. QED BY <1>2, <1>3, <2>1, <2>2
<1>4. CASE ItemLoaded(c) /\ ~Threw(c)
  <2>1. PICK k : Takes(c, [st EXCEPT !.raw = Answer(c), !.form = Answer(c).fields, !.tab = k], {}, {})
    BY <1>4 DEF ItemLoaded
  <2> DEFINE s == [st EXCEPT !.raw = Answer(c), !.form = Answer(c).fields, !.tab = k]
  <2>2. DOMAIN s = DOMAIN st /\ s.raw = Answer(c) /\ s.form = Answer(c).fields /\ s.links = st.links /\ s.rewrote = st.rewrote /\ s.at = st.at /\ s.failed = st.failed
    BY <1>1
  <2>3. Takes(c, s, {}, {})
    BY <2>1
  <2> HIDE DEF s
  <2>4. c.kind = "item" /\ Answer(c) \in Records
    BY <1>1, <1>4 DEF ItemLoaded, EditorAsked, EditorAsk, Writes, Threw, Answer
  <2>5. Answer(c).fields \in [Fields -> Texts]
    BY <2>4 DEF Records
  <2>6. EditorState(s)
    BY <1>1, <2>2, <2>4, <2>5 DEF EditorState
  <2>7. QED BY <1>4, <2>2, <2>3, <2>4, <2>6
<1>5. ASSUME NEW s, ReloadItem(c, s), c.kind \in Writes, EditorSame(s)
      PROVE  \/ \E u : c.kind # "item" /\ Threw(c) /\ Takes(c, u, {}, {}) /\ EditorSame(u)
             \/ \E u : c.kind \in Writes /\ Takes(c, u, Asking({"item"}), Load({"item"})) /\ EditorSame(u)
  BY <1>5 DEF ReloadItem, Writes
<1>6. CASE c.kind \in {"patch", "setItemStatus", "refresh"} /\ ReloadItem(c, [st EXCEPT !.busy = None, !.told = IF Threw(c) THEN "error" ELSE "done"])
  <2> DEFINE s == [st EXCEPT !.busy = None, !.told = IF Threw(c) THEN "error" ELSE "done"]
  <2>1. DOMAIN s = DOMAIN st /\ s.raw = st.raw /\ s.form = st.form /\ s.links = st.links /\ s.rewrote = st.rewrote /\ s.at = st.at /\ s.failed = st.failed
    BY <1>1
  <2>2. ReloadItem(c, s)
    BY <1>6
  <2> HIDE DEF s
  <2>3. EditorSame(s)
    BY <1>2, <2>1 DEF EditorSame
  <2>4. c.kind \in Writes
    BY <1>6 DEF Writes
  <2>5. QED BY <1>5, <2>2, <2>3, <2>4
<1>7. CASE c.kind = "setLinks" /\ ReloadItem(c, [st EXCEPT !.saving = FALSE, !.told = IF Threw(c) THEN @ ELSE "done"])
  <2> DEFINE s == [st EXCEPT !.saving = FALSE, !.told = IF Threw(c) THEN @ ELSE "done"]
  <2>1. DOMAIN s = DOMAIN st /\ s.raw = st.raw /\ s.form = st.form /\ s.links = st.links /\ s.rewrote = st.rewrote /\ s.at = st.at /\ s.failed = st.failed
    BY <1>1
  <2>2. ReloadItem(c, s)
    BY <1>7
  <2> HIDE DEF s
  <2>3. EditorSame(s)
    BY <1>2, <2>1 DEF EditorSame
  <2>4. c.kind \in Writes
    BY <1>7 DEF Writes
  <2>5. QED BY <1>5, <2>2, <2>3, <2>4
<1>8. CASE c.kind = "remove" /\ Threw(c) /\ Takes(c, [st EXCEPT !.delete = [st.delete EXCEPT !.busy = FALSE]], {}, {})
  <2> DEFINE d == [st.delete EXCEPT !.busy = FALSE]
             s == [st EXCEPT !.delete = d]
  <2>1. DOMAIN s = DOMAIN st /\ s.raw = st.raw /\ s.form = st.form /\ s.links = st.links /\ s.rewrote = st.rewrote /\ s.at = st.at /\ s.failed = st.failed
    BY <1>1
  <2>2. Takes(c, s, {}, {})
    BY <1>8
  <2> HIDE DEF s
  <2>3. EditorSame(s)
    BY <1>2, <2>1 DEF EditorSame
  <2>4. QED BY <1>8, <2>2, <2>3
<1>9. CASE c.kind = "remove" /\ ~Threw(c) /\ Takes(c, [st EXCEPT !.at = "registry"], {}, {})
  <2> DEFINE s == [st EXCEPT !.at = "registry"]
  <2>1. DOMAIN s = DOMAIN st /\ s.raw = st.raw /\ s.form = st.form /\ s.links = st.links /\ s.rewrote = st.rewrote /\ s.failed = st.failed /\ s.at = "registry"
    BY <1>1
  <2>2. Takes(c, s, {}, {})
    BY <1>9
  <2> HIDE DEF s
  <2>3. EditorState(s)
    BY <1>2, <2>1
  <2>4. QED BY <1>9, <2>1, <2>2, <2>3
<1>10. CASE EditorDone(c)
  BY <1>6, <1>7, <1>8, <1>9, <1>10 DEF EditorDone
<1>11. QED BY <1>3, <1>4, <1>10 DEF EditorArrive

LEMMA FieldEdits ==
  ASSUME NEW i \in Records, NEW g \in [Fields -> Texts]
  PROVE  [i EXCEPT !.fields = g] \in Records /\ [i EXCEPT !.fields = g].fields = g
BY DEF Records

LEMMA RecordEdits ==
  ASSUME NEW i \in Records
  PROVE  /\ Edited(i) \in Records /\ Edited(i).fields = i.fields
         /\ \A x \in Stages : [i EXCEPT !.status = x] \in Records /\ [i EXCEPT !.status = x].fields = i.fields
         /\ \A l \in SUBSET {"x", "y"} : [i EXCEPT !.links = l] \in Records /\ [i EXCEPT !.links = l].fields = i.fields
         /\ [i EXCEPT !.signals = "new"] \in Records /\ [i EXCEPT !.signals = "new"].fields = i.fields
<1>1. Edited(i) \in Records /\ Edited(i).fields = i.fields
  BY DEF Edited, Records
<1>2. ASSUME NEW x \in Stages PROVE [i EXCEPT !.status = x] \in Records /\ [i EXCEPT !.status = x].fields = i.fields
  BY DEF Records
<1>3. ASSUME NEW l \in SUBSET {"x", "y"} PROVE [i EXCEPT !.links = l] \in Records /\ [i EXCEPT !.links = l].fields = i.fields
  BY DEF Records
<1>4. [i EXCEPT !.signals = "new"] \in Records /\ [i EXCEPT !.signals = "new"].fields = i.fields
  BY DEF Records
<1>5. QED BY <1>1, <1>2, <1>3, <1>4

\* What the server does with a request.
LEMMA EditorServes ==
  ASSUME EditorKept, NEW c \in Requests, EditorServe(c)
  PROVE  \E a, r :
           /\ Replies(c, a, r) /\ EditorSrv(r) /\ EditorAsked(c, a, st.rewrote)
           /\ r.there => srv.there
           /\ r.theirs = srv.theirs
           /\ \A f \in Theirs : (KeyOf[f] = "content" /\ st.rewrote) \/ r.item.fields[f] = srv.item.fields[f]
           /\ \/ r = srv /\ c.kind = "item" /\ a = IF srv.there THEN srv.item ELSE Failed
              \/ r = srv /\ c.kind # "item" /\ a = Failed
              \/ c.kind \in Writes /\ a = "ok"
              \/ c.kind = "remove" /\ a = "ok" /\ ~r.there /\ r.item = srv.item
<1> DEFINE Good(a, r) ==
           /\ Replies(c, a, r) /\ EditorSrv(r) /\ EditorAsked(c, a, st.rewrote)
           /\ r.there => srv.there
           /\ r.theirs = srv.theirs
           /\ \A f \in Theirs : (KeyOf[f] = "content" /\ st.rewrote) \/ r.item.fields[f] = srv.item.fields[f]
           /\ \/ r = srv /\ c.kind = "item" /\ a = IF srv.there THEN srv.item ELSE Failed
              \/ r = srv /\ c.kind # "item" /\ a = Failed
              \/ c.kind \in Writes /\ a = "ok"
              \/ c.kind = "remove" /\ a = "ok" /\ ~r.there /\ r.item = srv.item
<1>1. /\ EditorSrv(srv) /\ EditorAsked(c, calls[c], st.rewrote)
      /\ DOMAIN srv = {"item", "there", "theirs"} /\ srv.item \in Records /\ srv.there \in BOOLEAN /\ srv.theirs \in SUBSET Theirs
  BY DEF EditorKept, EditorSrv
<1>2. /\ DOMAIN srv.item = {"status", "fields", "links", "edition", "signals"}
      /\ srv.item.status \in Stages /\ srv.item.fields \in [Fields -> Texts] /\ srv.item.links \in SUBSET {"x", "y"}
      /\ srv.item.edition \in Nat /\ srv.item.signals \in {"old", "new"}
  BY <1>1 DEF Records
<1>3. c.kind # "item" => EditorAsk(c, st.rewrote)
  BY <1>1 DEF EditorAsked
<1>4. CASE c.kind = "item" /\ Replies(c, IF srv.there THEN srv.item ELSE Failed, srv)
  <2>1. Good(IF srv.there THEN srv.item ELSE Failed, srv)
    BY <1>1, <1>4 DEF EditorAsked
  <2>2. QED BY <2>1
<1>5. CASE c.kind # "item" /\ Replies(c, Failed, srv)
  <2>1. Good(Failed, srv)
    BY <1>1, <1>3, <1>5 DEF EditorAsked
  <2>2. QED BY <2>1
<1>6. ASSUME c.kind \in Writes, NEW i \in Records,
             \A f \in Theirs : (KeyOf[f] = "content" /\ st.rewrote) \/ i.fields[f] = srv.item.fields[f],
             Replies(c, "ok", [srv EXCEPT !.item = i])
      PROVE  \E a, r : Good(a, r)
  <2> DEFINE r == [srv EXCEPT !.item = i]
  <2>1. DOMAIN r = {"item", "there", "theirs"} /\ r.theirs = srv.theirs /\ r.item = i /\ r.there = srv.there
    BY <1>1
  <2>2. Replies(c, "ok", r)
    BY <1>6
  <2> HIDE DEF r
  <2>3. Good("ok", r)
    BY <1>1, <1>3, <1>6, <2>1, <2>2 DEF EditorSrv, EditorAsked, Writes
  <2>4. QED BY <2>3
<1>7. CASE c.kind = "remove" /\ Replies(c, "ok", [srv EXCEPT !.there = FALSE])
  <2> DEFINE r == [srv EXCEPT !.there = FALSE]
  <2>1. DOMAIN r = {"item", "there", "theirs"} /\ r.theirs = srv.theirs /\ r.item = srv.item /\ r.there = FALSE
    BY <1>1
  <2>2. Replies(c, "ok", r)
    BY <1>7
  <2> HIDE DEF r
  <2>3. Good("ok", r)
    BY <1>1, <1>3, <1>7, <2>1, <2>2 DEF EditorSrv, EditorAsked
  <2>4. QED BY <2>3
<1>8. CASE c.kind = "patch" /\ Replies(c, "ok", [srv EXCEPT !.item = Edited(Patched(@, c.arg))])
  <2> DEFINE g == [f \in Fields |-> IF f \in DOMAIN c.arg THEN c.arg[f] ELSE srv.item.fields[f]]
             i == [srv.item EXCEPT !.fields = g]
  <2>1. /\ DOMAIN c.arg \subseteq Fields \ {"description"} /\ \A f \in DOMAIN c.arg : c.arg[f] \in Texts
        /\ "documentation" \in DOMAIN c.arg => st.rewrote
    BY <1>3, <1>8 DEF EditorAsk
  <2>2. g \in [Fields -> Texts] /\ \A f \in Theirs : (KeyOf[f] = "content" /\ st.rewrote) \/ g[f] = srv.item.fields[f]
    <3>1. \A f \in Fields : g[f] \in Texts
      BY <1>2, <2>1
    <3>2. ASSUME NEW f \in Theirs, ~(KeyOf[f] = "content" /\ st.rewrote)
          PROVE  g[f] = srv.item.fields[f]
      <4>1. f \in Fields /\ (f = "description" \/ (f = "documentation" /\ KeyOf[f] = "content"))
        BY KeyFacts DEF Theirs
      <4>2. f \notin DOMAIN c.arg
        BY <2>1, <3>2, <4>1
      <4>3. QED BY <4>1, <4>2
    <3>3. QED BY <3>1, <3>2
  <2>3. Replies(c, "ok", [srv EXCEPT !.item = Edited(i)])
    BY <1>8 DEF Patched
  <2> HIDE DEF g
  <2>4. i \in Records /\ i.fields = g
    BY <1>1, <2>2, FieldEdits
  <2> HIDE DEF i
  <2>5. Edited(i) \in Records /\ Edited(i).fields = g
    BY <2>4, RecordEdits
  <2>6. c.kind \in Writes
    BY <1>8 DEF Writes
  <2>7. QED BY <1>6, <2>2, <2>3, <2>5, <2>6
<1>9. CASE c.kind = "setItemStatus" /\ Replies(c, "ok", [srv EXCEPT !.item = Edited([@ EXCEPT !.status = c.arg])])
  <2> DEFINE i == [srv.item EXCEPT !.status = c.arg]
  <2>1. c.arg \in Stages
    BY <1>3, <1>9 DEF EditorAsk, Writes
  <2>2. i \in Records /\ i.fields = srv.item.fields
    BY <1>1, <2>1, RecordEdits
  <2>3. Replies(c, "ok", [srv EXCEPT !.item = Edited(i)])
    BY <1>9
  <2> HIDE DEF i
  <2>4. Edited(i) \in Records /\ Edited(i).fields = srv.item.fields
    BY <2>2, RecordEdits
  <2>5. c.kind \in Writes
    BY <1>9 DEF Writes
  <2>6. QED BY <1>6, <2>3, <2>4, <2>5
<1>10. CASE c.kind = "refresh" /\ Replies(c, "ok", [srv EXCEPT !.item = [srv.item EXCEPT !.signals = "new"]])
  <2> DEFINE i == [srv.item EXCEPT !.signals = "new"]
  <2>1. i \in Records /\ i.fields = srv.item.fields
    BY <1>1, RecordEdits
  <2>2. Replies(c, "ok", [srv EXCEPT !.item = i]) /\ c.kind \in Writes
    BY <1>10 DEF Writes
  <2> HIDE DEF i
  <2>3. QED BY <1>6, <2>1, <2>2
<1>11. CASE c.kind = "setLinks" /\ Replies(c, "ok", [srv EXCEPT !.item = [srv.item EXCEPT !.links = c.arg]])
  <2> DEFINE i == [srv.item EXCEPT !.links = c.arg]
  <2>1. c.arg \in SUBSET {"x", "y"} /\ c.kind \in Writes
    BY <1>3, <1>11 DEF EditorAsk, Writes
  <2>2. i \in Records /\ i.fields = srv.item.fields
    BY <1>1, <2>1, RecordEdits
  <2>3. Replies(c, "ok", [srv EXCEPT !.item = i])
    BY <1>11
  <2> HIDE DEF i
  <2>4. QED BY <1>6, <2>1, <2>2, <2>3
<1>12. \/ c.kind = "item" /\ Replies(c, IF srv.there THEN srv.item ELSE Failed, srv)
       \/ c.kind # "item" /\ Replies(c, Failed, srv)
       \/ c.kind = "patch" /\ Replies(c, "ok", [srv EXCEPT !.item = Edited(Patched(@, c.arg))])
       \/ c.kind = "setItemStatus" /\ Replies(c, "ok", [srv EXCEPT !.item = Edited([@ EXCEPT !.status = c.arg])])
       \/ c.kind = "refresh" /\ Replies(c, "ok", [srv EXCEPT !.item = [srv.item EXCEPT !.signals = "new"]])
       \/ c.kind = "setLinks" /\ Replies(c, "ok", [srv EXCEPT !.item = [srv.item EXCEPT !.links = c.arg]])
       \/ c.kind = "remove" /\ Replies(c, "ok", [srv EXCEPT !.there = FALSE])
  BY DEF EditorServe
<1>13. QED BY <1>4, <1>5, <1>7, <1>8, <1>9, <1>10, <1>11, <1>12

\* Every step keeps it so.
LEMMA EditorAsks ==
  ASSUME VisitType, NEW kept \in SUBSET Requests, NEW new, Sends(kept, new),
         \A c \in Requests : EditorAsked(c, calls[c], st.rewrote), \A r \in new : EditorAsk(r, st.rewrote) \/ r.kind = "item",
         st.rewrote => st'.rewrote
  PROVE  (\A c \in Requests : EditorAsked(c, calls[c], st.rewrote))'
<1>1. /\ \A c \in New(new) : EditorAsk(c, st.rewrote) \/ c.kind = "item"
      /\ Requests' = kept \cup New(new) /\ (\A c \in kept : calls'[c] = calls[c]) /\ \A c \in New(new) : calls'[c] = Waiting
  <2>1. ASSUME NEW c \in New(new) PROVE EditorAsk(c, st.rewrote) \/ c.kind = "item"
    <3>1. PICK r \in new : c.kind = r.kind /\ c.arg = r.arg
      BY NewFacts
    <3>2. QED BY <3>1 DEF EditorAsk
  <2>2. QED BY <2>1 DEF Sends
<1>2. \A c : EditorAsk(c, st.rewrote) => EditorAsk(c, st'.rewrote)
  BY DEF EditorAsk
<1>3. ASSUME NEW c \in Requests' PROVE EditorAsked(c, calls'[c], st'.rewrote)
  <2>1. CASE c \in kept
    BY <1>1, <1>2, <2>1 DEF EditorAsked
  <2>2. CASE c \in New(new)
    BY <1>1, <1>2, <2>2 DEF EditorAsked
  <2>3. QED BY <1>1, <2>1, <2>2
<1>4. QED BY <1>3

\* Saving an item leaves what a colleague wrote under a key not typed into.
LEMMA EditorKeeps ==
  ASSUME page = "itemEditor", VisitType, EditorKept, Next
  PROVE  EditorKept'
<1>1. EditorState(st) /\ EditorSrv(srv) /\ (\A c \in Requests : EditorAsked(c, calls[c], st.rewrote)) /\ ColleagueKept
  BY DEF EditorKept
<1>2. ASSUME NEW kept \in SUBSET Requests, NEW new, Sends(kept, new), \A r \in new : EditorAsk(r, st.rewrote) \/ r.kind = "item",
             srv' = srv, EditorState(st'), st.rewrote => st'.rewrote
      PROVE  EditorKept'
  <2>1. (\A c \in Requests : EditorAsked(c, calls[c], st.rewrote))'
    BY <1>1, <1>2, EditorAsks
  <2>2. QED BY <1>1, <1>2, <2>1 DEF EditorKept, ColleagueKept
<1>3. CASE EditorClick
  <2>1. PICK s, new : Acts(s, {}, new) /\ EditorSame(s) /\ \A r \in new : EditorAsk(r, st.rewrote)
    BY <1>3, EditorClicks
  <2>2. Requests \ {} = Requests /\ Requests \in SUBSET Requests
    OBVIOUS
  <2>3. Sends(Requests, new) /\ srv' = srv /\ st' = s /\ others' = others
    BY <2>1, <2>2, ActsFacts DEF Around
  <2>4. QED BY <1>2, <2>1, <2>2, <2>3 DEF EditorSame
<1>4. ASSUME NEW c \in Requests, EditorServe(c)
      PROVE  EditorKept'
  <2>1. PICK a, r : /\ Replies(c, a, r) /\ EditorSrv(r) /\ EditorAsked(c, a, st.rewrote)
                    /\ r.there => srv.there
                    /\ r.theirs = srv.theirs
                    /\ \A f \in Theirs : (KeyOf[f] = "content" /\ st.rewrote) \/ r.item.fields[f] = srv.item.fields[f]
    BY <1>4, EditorServes
  <2>2. /\ st' = st /\ srv' = r /\ Requests' = Requests /\ others' = others
        /\ calls'[c] = a /\ \A o \in Requests \ {c} : calls'[o] = calls[o]
    BY <2>1, RepliesFacts DEF Around
  <2>3. \A f \in srv.theirs : f \in Theirs
    BY <1>1 DEF EditorSrv
  <2>4. ColleagueKept'
    BY <1>1, <2>1, <2>2, <2>3 DEF ColleagueKept
  <2>5. QED BY <1>1, <2>1, <2>2, <2>4 DEF EditorKept
<1>5. ASSUME NEW c \in Requests, Answer(c) # Waiting, EditorArrive(c)
      PROVE  EditorKept'
  <2>1. PICK s, dropped, new : /\ Takes(c, s, dropped, new) /\ EditorState(s) /\ (st.rewrote => s.rewrote)
                              /\ \A r \in new : EditorAsk(r, st.rewrote) \/ r.kind = "item"
    <3>1. (\A r \in {} : EditorAsk(r, st.rewrote) \/ r.kind = "item") /\ \A r \in Load({"item"}) : EditorAsk(r, st.rewrote) \/ r.kind = "item"
      BY LoadFacts
    <3>2. QED BY <1>5, <3>1, EditorArrives DEF EditorSame
  <2>2. Sends((Requests \ {c}) \ dropped, new) /\ srv' = srv /\ st' = s /\ others' = others
    BY <2>1, TakesFacts DEF Around
  <2>3. QED BY <1>2, <2>1, <2>2
<1>6. CASE EditorElsewhere
  <2> DEFINE gone == [srv EXCEPT !.there = FALSE]
  <2>1. Elsewhere({WriteTheirs(f) : f \in Theirs} \cup {gone})
    BY <1>6 DEF EditorElsewhere
  <2>2. /\ st' = st /\ Requests' = Requests /\ calls' = calls
        /\ srv' \in {WriteTheirs(f) : f \in Theirs} \cup {gone}
    BY <2>1, ElsewhereFacts
  <2>3. DOMAIN srv = {"item", "there", "theirs"} /\ srv.item \in Records /\ srv.there \in BOOLEAN /\ srv.theirs \in SUBSET Theirs
    BY <1>1 DEF EditorSrv
  <2>4. ASSUME NEW f \in Theirs, srv' = WriteTheirs(f)
        PROVE  EditorSrv(srv') /\ ColleagueKept'
    <3> DEFINE g == [srv.item.fields EXCEPT ![f] = "theirs"]
               j == [srv.item EXCEPT !.fields = g]
               i == Edited(j)
               r == [srv EXCEPT !.item = i, !.theirs = @ \cup {f}]
    <3>1. f \in Fields
      BY KeyFacts DEF Theirs
    <3>2. g \in [Fields -> Texts] /\ g[f] = "theirs" /\ \A o \in Fields : o # f => g[o] = srv.item.fields[o]
      BY <2>3, <3>1 DEF Records, Texts
    <3>3. srv' = r
      BY <2>4 DEF WriteTheirs
    <3> HIDE DEF g
    <3>4. j \in Records /\ j.fields = g
      BY <2>3, <3>2, FieldEdits
    <3> HIDE DEF j
    <3>5. i \in Records /\ i.fields = g
      BY <3>4, RecordEdits
    <3> HIDE DEF i
    <3>6. DOMAIN r = {"item", "there", "theirs"} /\ r.item = i /\ r.there = srv.there /\ r.theirs = srv.theirs \cup {f}
      BY <2>3
    <3> HIDE DEF r
    <3>7. EditorSrv(r)
      BY <2>3, <3>5, <3>6 DEF EditorSrv
    <3>8. ASSUME r.there, NEW o \in r.theirs
          PROVE  (KeyOf[o] = "content" /\ st.rewrote) \/ r.item.fields[o] = "theirs"
      <4>1. CASE o = f
        BY <3>2, <3>5, <3>6, <4>1
      <4>2. CASE o # f
        <5>1. o \in srv.theirs /\ o \in Fields /\ srv.there
          BY <2>3, <3>6, <3>8, <4>2, KeyFacts DEF Theirs
        <5>2. (KeyOf[o] = "content" /\ st.rewrote) \/ srv.item.fields[o] = "theirs"
          BY <1>1, <5>1 DEF ColleagueKept
        <5>3. r.item.fields[o] = srv.item.fields[o]
          BY <3>2, <3>5, <3>6, <4>2, <5>1
        <5>4. QED BY <5>2, <5>3
      <4>3. QED BY <4>1, <4>2
    <3>9. QED BY <2>2, <3>3, <3>7, <3>8 DEF ColleagueKept
  <2>5. ASSUME srv' = gone PROVE EditorSrv(srv') /\ ColleagueKept'
    <3>1. DOMAIN gone = {"item", "there", "theirs"} /\ gone.item = srv.item /\ gone.there = FALSE /\ gone.theirs = srv.theirs
      BY <2>3
    <3> HIDE DEF gone
    <3>2. EditorSrv(srv') /\ srv'.there = FALSE
      BY <2>3, <2>5, <3>1 DEF EditorSrv
    <3>3. ColleagueKept'
      BY <3>2 DEF ColleagueKept
    <3>4. QED BY <3>2, <3>3
  <2>6. EditorSrv(srv') /\ ColleagueKept'
    <3>1. srv' = gone \/ \E f \in Theirs : srv' = WriteTheirs(f)
      BY <2>2
    <3>2. ASSUME NEW f \in Theirs, srv' = WriteTheirs(f) PROVE EditorSrv(srv') /\ ColleagueKept'
      BY <2>4, <3>2
    <3> HIDE DEF gone
    <3>3. QED BY <2>5, <3>1, <3>2
  <2>7. QED BY <1>1, <2>2, <2>6 DEF EditorKept
<1>7. ASSUME NEW c \in Requests, Fail(c)
      PROVE  EditorKept'
  <2>1. /\ st' = st /\ srv' = srv /\ Requests' = Requests /\ others' = others
        /\ calls'[c] = Failed /\ \A o \in Requests \ {c} : calls'[o] = calls[o]
    BY <1>7, FailFacts
  <2>2. EditorAsked(c, Failed, st.rewrote)
    BY <1>1 DEF EditorAsked
  <2>3. ColleagueKept'
    BY <1>1, <2>1 DEF ColleagueKept
  <2>4. QED BY <1>1, <2>1, <2>2, <2>3 DEF EditorKept
<1>8. QED BY <1>3, <1>4, <1>5, <1>6, <1>7, EditorSteps

-----------------------------------------------------------------------------
\* A change that was made, and whose answer will have the item loaded again.
EditorChanged == \E m \in Requests : m.kind \in Writes /\ Answered(m)

\* What is not there is never there again, and who was told so was told the truth.
EditorGone ==
  /\ st.failed \/ st.at = "registry" => ~srv.there
  /\ \A c \in Requests : /\ c.kind = "item" /\ calls[c] = Failed => ~srv.there
                         /\ c.kind = "remove" /\ Answered(c) => ~srv.there

\* The request for the item, of which there is one, and what it may answer.
EditorFresh ==
  /\ \A c, d \in Requests : c.kind = "item" /\ d.kind = "item" => c = d
  /\ \A c \in Requests : c.kind = "item" => calls[c] \in {Waiting, Failed, srv.item}
  /\ st.failed \/ st.at = "registry" \/ st.raw = srv.item
     \/ (\E c \in Requests : c.kind = "item") \/ \E c \in Requests : c.kind = "remove" /\ Answered(c)

\* The form is the item that is there, or will be loaded again.
EditorCore == EditorGone /\ (EditorChanged \/ EditorFresh)

\* Every step of a calm visit keeps it so.
LEMMA EditorCalm ==
  ASSUME page = "itemEditor", VisitType, EditorKept, EditorCore, Inside
  PROVE  EditorCore'
<1>1. /\ EditorState(st) /\ EditorSrv(srv) /\ (\A c \in Requests : EditorAsked(c, calls[c], st.rewrote))
      /\ st.failed \/ st.at = "registry" => ~srv.there
      /\ \A c \in Requests : /\ c.kind = "item" /\ calls[c] = Failed => ~srv.there
                             /\ c.kind = "remove" /\ Answered(c) => ~srv.there
  BY DEF EditorKept, EditorCore, EditorGone
<1>2. \A m \in Marks : m # "ok"
  BY MarksAssumption
<1>3. "ok" \notin {Waiting, Failed} /\ Waiting # Failed
  BY <1>2, MarksAssumption DEF Marks
\* What neither loads the item nor changes it.
<1>4. ASSUME NEW kept \in SUBSET Requests, NEW new, Sends(kept, new), \A r \in new : EditorAsk(r, st.rewrote),
             srv' = srv, st'.raw = st.raw, st'.at = st.at, st'.failed = st.failed,
             \A o \in Requests : o \notin kept => ~Answered(o) /\ o.kind # "item"
      PROVE  EditorCore'
  <2>1. /\ \A o \in New(new) : o.kind # "item"
        /\ Requests' = kept \cup New(new) /\ (\A o \in kept : calls'[o] = calls[o]) /\ \A o \in New(new) : calls'[o] = Waiting
    <3>1. ASSUME NEW o \in New(new) PROVE o.kind # "item"
      <4>1. PICK r \in new : o.kind = r.kind
        BY NewFacts
      <4>2. QED BY <1>4, <4>1 DEF EditorAsk, Writes
    <3>2. QED BY <1>4, <3>1 DEF Sends
  <2>2. EditorGone'
    BY <1>1, <1>3, <1>4, <2>1 DEF EditorGone, Answered, Answer
  <2>3. EditorChanged => EditorChanged'
    BY <1>4, <2>1 DEF EditorChanged, Answered, Answer
  <2>4. EditorFresh => EditorFresh'
    BY <1>4, <2>1 DEF EditorFresh, Answered, Answer
  <2>5. QED BY <2>2, <2>3, <2>4 DEF EditorCore
<1>5. CASE EditorClick
  <2>1. PICK s, new : Acts(s, {}, new) /\ EditorSame(s) /\ \A r \in new : EditorAsk(r, st.rewrote)
    BY <1>5, EditorClicks
  <2>2. Requests \ {} = Requests /\ Requests \in SUBSET Requests
    OBVIOUS
  <2>3. Sends(Requests, new) /\ srv' = srv /\ st' = s
    BY <2>1, <2>2, ActsFacts
  <2>4. QED BY <1>4, <2>1, <2>2, <2>3 DEF EditorSame
<1>6. ASSUME NEW c \in Requests, EditorServe(c)
      PROVE  EditorCore'
  <2>1. PICK a, r : /\ Replies(c, a, r)
                    /\ r.there => srv.there
                    /\ \/ r = srv /\ c.kind = "item" /\ a = IF srv.there THEN srv.item ELSE Failed
                       \/ r = srv /\ c.kind # "item" /\ a = Failed
                       \/ c.kind \in Writes /\ a = "ok"
                       \/ c.kind = "remove" /\ a = "ok" /\ ~r.there /\ r.item = srv.item
    BY <1>6, EditorServes
  <2>2. /\ st' = st /\ srv' = r /\ Requests' = Requests /\ calls[c] = Waiting
        /\ calls'[c] = a /\ \A o \in Requests \ {c} : calls'[o] = calls[o]
    BY <2>1, RepliesFacts
  <2>3. c.kind = "item" => c.kind # "remove" /\ c.kind \notin Writes
    BY DEF Writes
  <2>4. EditorChanged => EditorChanged'
    BY <2>2 DEF EditorChanged, Answered, Answer
  <2>5. CASE r = srv /\ c.kind = "item" /\ a = IF srv.there THEN srv.item ELSE Failed
    <3>1. a \in {Failed, srv.item} /\ (a = Failed => ~srv.there)
      BY <1>1, <2>5, RecordsAssumption DEF EditorSrv, Marks
    <3>2. EditorGone'
      BY <1>1, <2>2, <2>3, <2>5, <3>1 DEF EditorGone, Answered, Answer
    <3>3. EditorFresh => EditorFresh'
      BY <2>2, <2>5, <3>1 DEF EditorFresh, Answered, Answer
    <3>4. QED BY <2>4, <3>2, <3>3 DEF EditorCore
  <2>6. CASE r = srv /\ c.kind # "item" /\ a = Failed
    <3>1. EditorGone'
      BY <1>1, <2>2, <2>6 DEF EditorGone, Answered, Answer
    <3>2. EditorFresh => EditorFresh'
      BY <2>2, <2>6 DEF EditorFresh, Answered, Answer
    <3>3. QED BY <2>4, <3>1, <3>2 DEF EditorCore
  <2>7. CASE c.kind \in Writes /\ a = "ok"
    <3>1. EditorChanged'
      BY <1>3, <2>2, <2>7 DEF EditorChanged, Answered, Answer
    <3>2. EditorGone'
      BY <1>1, <2>1, <2>2, <2>7 DEF EditorGone, Answered, Answer, Writes
    <3>3. QED BY <3>1, <3>2 DEF EditorCore
  <2>8. CASE c.kind = "remove" /\ a = "ok" /\ ~r.there /\ r.item = srv.item
    <3>1. EditorGone'
      BY <1>1, <2>1, <2>2, <2>8 DEF EditorGone
    <3>2. c \in Requests' /\ (Answered(c))'
      BY <1>3, <2>2, <2>8 DEF Answered, Answer
    <3>3. EditorFresh => EditorFresh'
      BY <2>1, <2>2, <2>8, <3>2 DEF EditorFresh
    <3>4. QED BY <2>4, <3>1, <3>3 DEF EditorCore
  <2>9. QED BY <2>1, <2>5, <2>6, <2>7, <2>8
<1>7. ASSUME NEW c \in Requests, Answer(c) # Waiting, EditorArrive(c)
      PROVE  EditorCore'
  <2> DEFINE kept == Requests \ {c}
  <2>1. (Requests \ {c}) \ {} = kept /\ kept \in SUBSET Requests /\ \A r \in {} : EditorAsk(r, st.rewrote)
    OBVIOUS
  <2>2. ASSUME NEW s, Takes(c, s, {}, {})
        PROVE  /\ Sends(kept, {}) /\ srv' = srv /\ st' = s
               /\ Requests' = kept /\ \A o \in kept : calls'[o] = calls[o]
    <3>1. Sends(kept, {}) /\ srv' = srv /\ st' = s
      BY <2>1, <2>2, TakesFacts
    <3>2. QED BY <3>1, NumberedNone DEF Sends, New
  <2>3. CASE \E s : /\ c.kind = "item" /\ ~Threw(c) /\ Takes(c, s, {}, {})
                    /\ EditorState(s) /\ s.raw = Answer(c) /\ s.at = st.at /\ s.failed = st.failed
    <3>1. PICK s : /\ c.kind = "item" /\ ~Threw(c) /\ Takes(c, s, {}, {})
                   /\ s.raw = Answer(c) /\ s.at = st.at /\ s.failed = st.failed
      BY <2>3
    <3>2. srv' = srv /\ st' = s /\ Requests' = kept /\ \A o \in kept : calls'[o] = calls[o]
      BY <2>2, <3>1
    <3>3. EditorGone'
      BY <1>1, <3>1, <3>2 DEF EditorGone, Answered, Answer
    <3>4. EditorChanged => EditorChanged'
      BY <3>1, <3>2 DEF EditorChanged, Answered, Answer, Writes
    <3>5. EditorFresh => EditorFresh'
      BY <1>7, <3>1, <3>2 DEF EditorFresh, Answer, Threw
    <3>6. QED BY <3>3, <3>4, <3>5 DEF EditorCore
  <2>4. CASE \E s : /\ c.kind = "item" /\ Threw(c) /\ Takes(c, s, {}, {})
                    /\ EditorState(s) /\ s.raw = st.raw /\ s.at = st.at /\ s.failed
    <3>1. PICK s : /\ c.kind = "item" /\ Threw(c) /\ Takes(c, s, {}, {})
                   /\ s.raw = st.raw /\ s.at = st.at /\ s.failed
      BY <2>4
    <3>2. srv' = srv /\ st' = s /\ Requests' = kept /\ \A o \in kept : calls'[o] = calls[o]
      BY <2>2, <3>1
    <3>3. ~srv.there
      BY <1>1, <3>1 DEF Threw, Answer
    <3>4. EditorGone'
      BY <3>2, <3>3 DEF EditorGone
    <3>5. EditorChanged => EditorChanged'
      BY <3>1, <3>2 DEF EditorChanged, Answered, Answer, Writes
    <3>6. EditorFresh => EditorFresh'
      BY <3>1, <3>2 DEF EditorFresh
    <3>7. QED BY <3>4, <3>5, <3>6 DEF EditorCore
  <2>5. CASE \E s : c.kind # "item" /\ Threw(c) /\ Takes(c, s, {}, {}) /\ EditorSame(s)
    <3>1. PICK s : c.kind # "item" /\ Threw(c) /\ Takes(c, s, {}, {}) /\ EditorSame(s)
      BY <2>5
    <3>2. Sends(kept, {}) /\ srv' = srv /\ st' = s
      BY <2>2, <3>1
    <3>3. ~Answered(c)
      BY <3>1 DEF Answered, Threw
    <3>4. QED BY <1>4, <2>1, <3>1, <3>2, <3>3 DEF EditorSame
  <2>6. CASE \E s : c.kind \in Writes /\ Takes(c, s, Asking({"item"}), Load({"item"})) /\ EditorSame(s)
    <3>1. PICK s : c.kind \in Writes /\ Takes(c, s, Asking({"item"}), Load({"item"})) /\ EditorSame(s)
      BY <2>6
    <3> DEFINE rest == (Requests \ {c}) \ Asking({"item"})
               new == Load({"item"})
    <3>2. rest \in SUBSET Requests /\ (\A o \in rest : o.kind # "item") /\ Asking({"item"}) \in SUBSET Requests
      BY DEF Asking
    <3>3. (\A r \in new : r.kind = "item" /\ r.arg = None) /\ \E r \in new : r.kind = "item"
      BY LoadFacts
    <3> HIDE DEF new
    <3>4. Sends(rest, new) /\ srv' = srv /\ st' = s
      BY <3>1, TakesFacts DEF new
    <3> HIDE DEF rest
    <3>5. Sought(calls', "item") /\ Alone(calls', "item", srv.item)
      <4>1. \A q, r \in new : q.kind = "item" /\ r.kind = "item" => q.arg = r.arg
        BY <3>3
      <4>2. QED BY <3>2, <3>3, <3>4, <4>1, RenewsAlone
    <3>6. EditorFresh'
      BY <3>4, <3>5 DEF EditorFresh, Sought, Alone, Requests
    <3>7. /\ Requests' = rest \cup New(new) /\ (\A o \in rest : calls'[o] = calls[o])
          /\ \A o \in New(new) : o.kind = "item" /\ calls'[o] = Waiting
      BY <3>3, <3>4, NewFacts DEF Sends
    <3>8. EditorGone'
      BY <1>1, <1>3, <3>1, <3>2, <3>4, <3>7 DEF EditorGone, EditorSame, Answered, Answer
    <3>9. QED BY <3>6, <3>8 DEF EditorCore
  <2>7. CASE \E s : /\ c.kind = "remove" /\ ~Threw(c) /\ Takes(c, s, {}, {})
                    /\ EditorState(s) /\ s.raw = st.raw /\ s.failed = st.failed /\ s.at = "registry"
    <3>1. PICK s : c.kind = "remove" /\ ~Threw(c) /\ Takes(c, s, {}, {}) /\ s.raw = st.raw /\ s.failed = st.failed /\ s.at = "registry"
      BY <2>7
    <3>2. srv' = srv /\ st' = s /\ Requests' = kept /\ \A o \in kept : calls'[o] = calls[o]
      BY <2>2, <3>1
    <3>3. ~srv.there
      BY <1>1, <1>7, <3>1 DEF Threw, Answered, Answer
    <3>4. EditorGone'
      BY <3>2, <3>3 DEF EditorGone
    <3>5. EditorChanged => EditorChanged'
      BY <3>1, <3>2 DEF EditorChanged, Answered, Answer, Writes
    <3>6. EditorFresh => EditorFresh'
      BY <3>1, <3>2 DEF EditorFresh
    <3>7. QED BY <3>4, <3>5, <3>6 DEF EditorCore
  <2>8. QED BY <1>7, <2>3, <2>4, <2>5, <2>6, <2>7, EditorArrives
<1>8. QED BY <1>5, <1>6, <1>7, EditorSteps

\* It is so when the page is mounted.
LEMMA EditorStart == EditorInit => page = "itemEditor" /\ EditorKept /\ EditorCore
<1> SUFFICES ASSUME EditorInit PROVE page = "itemEditor" /\ EditorKept /\ EditorCore
  OBVIOUS
<1> DEFINE s == [at |-> "here", raw |-> NoData, form |-> NoData, failed |-> FALSE, busy |-> None, told |-> None,
                 tab |-> "details", links |-> {}, saving |-> FALSE, delete |-> Closed, rewrote |-> FALSE]
           new == Load({"item"})
           Record(x) == [item |-> OldItem(x), there |-> TRUE, theirs |-> {}]
<1>1. PICK x \in Stages : Mounted("itemEditor", s, new, {Record(x)})
  BY DEF EditorInit
<1>2. EditorState(s) /\ s.failed = FALSE /\ s.at = "here"
  BY DEF EditorState
<1>3. EditorSrv(Record(x)) /\ Record(x).theirs = {}
  <2>1. OldItem(x) \in Records
    BY DEF OldItem, Records, Texts
  <2>2. QED BY <2>1 DEF EditorSrv
<1>4. (\A r \in new : r.kind = "item" /\ r.arg = None) /\ \E r \in new : r.kind = "item"
  BY LoadFacts
<1> HIDE DEF s, new, Record
<1>5. page = "itemEditor" /\ st = s /\ srv = Record(x) /\ \A o \in Requests : o.kind = "item"
  BY <1>1, <1>4, MountedAlone
<1>6. Alone(calls, "item", srv.item) /\ Sought(calls, "item") /\ Alone(calls, "item", Waiting)
  <2>1. \A q, r \in new : q.kind = "item" /\ r.kind = "item" => q.arg = r.arg
    BY <1>4
  <2>2. QED BY <1>1, <1>4, <2>1, MountedAlone
<1>7. \A o \in Requests : calls[o] = Waiting
  BY <1>5, <1>6 DEF Alone, Requests
<1>8. EditorKept
  BY <1>2, <1>3, <1>5, <1>7 DEF EditorKept, EditorAsked, ColleagueKept
<1>9. EditorFresh
  BY <1>5, <1>6 DEF EditorFresh, Alone, Sought, Requests
<1>10. Waiting # Failed
  BY MarksAssumption DEF Marks
<1>11. EditorGone
  BY <1>2, <1>5, <1>7, <1>10 DEF EditorGone
<1>12. QED BY <1>5, <1>8, <1>9, <1>11 DEF EditorCore

\* Once everything is answered, the page shows what is true.
LEMMA EditorEnd == ASSUME EditorCore, Settled PROVE EditorTrue
BY DEF EditorCore, EditorGone, EditorChanged, EditorFresh, Settled, EditorTrue

-----------------------------------------------------------------------------
(* The registry of the administration *)

Writing == {"setStatus", "decide", "resolve", "publish"}   \* what changes items, suggestions or reports
Filing  == {"saveCategory", "deleteCategory"}

\* Each request belongs to one way of working with the page.
AdminAsk(r, focus) ==
  /\ r.kind \in {"list", "panels", "categories", "preview"} \cup Writing \cup Filing
  /\ r.kind = "setStatus" => focus = "rows" /\ r.arg.panel = "items" /\ r.arg.id \in Items /\ r.arg.to \in Conditions
  /\ r.kind = "decide" => focus = "panels" /\ r.arg.panel = "suggestions" /\ r.arg.id \in Items
  /\ r.kind = "resolve" => focus = "panels" /\ r.arg.panel = "reports"
  /\ r.kind \in {"preview", "publish"} => focus = "bulk" /\ r.arg \in Bars
  /\ r.kind \in Filing => focus = "categories"
  /\ r.kind = "saveCategory" => r.arg = "c2"

AdminState(s) ==
  /\ DOMAIN s = {"rows", "query", "shown", "loading", "panels", "busy", "outcome", "bulk", "focus", "categories", "naming", "saving"}
  /\ DOMAIN s.bulk = {"open", "phase", "plan", "confirmed"}
  /\ s.panels = None \/ s.panels \in PanelRecords
  /\ s.outcome = None \/ /\ s.outcome.panel \in {"items", "suggestions", "reports"}
                         /\ s.outcome.panel = "items" => s.focus = "rows"

AdminSrv(r) ==
  /\ DOMAIN r = {"status", "suggestions", "reports", "categories"}
  /\ r.status \in [Items -> Conditions] /\ r.suggestions \subseteq Items /\ r.reports \subseteq Items
  /\ r.categories \subseteq Categories

AdminType ==
  /\ AdminState(st) /\ AdminSrv(srv)
  /\ \A c \in Requests :
       /\ AdminAsk(c, st.focus)
       /\ c.kind = "list" => c.arg = st.query
       /\ c.kind = "panels" => calls[c] \in {Waiting} \cup PanelRecords

\* The list and the panels show the records, unless a change whose answer is
\* on its way will have them loaded again.
ListsChanged == \E m \in Requests : m.kind \in Writing /\ Answered(m)
ListsFresh ==
  /\ Alone(calls, "panels", PanelsOf(srv)) /\ (Sought(calls, "panels") \/ st.panels = PanelsOf(srv))
  /\ Alone(calls, "list", ListPage(srv.status, st.query))
  /\ Sought(calls, "list") \/ (st.rows = ListPage(srv.status, st.query) /\ st.shown = st.query)
ListsOk == ListsChanged \/ ListsFresh

CatsChanged == \E m \in Requests : m.kind \in Filing /\ Answered(m)
CatsFresh   == Alone(calls, "categories", srv.categories) /\ (Sought(calls, "categories") \/ st.categories = srv.categories)
CatsOk      == CatsChanged \/ CatsFresh

\* Changes of rows are handled in the order in which they were asked for, and
\* of two on one row the later stands.
Shifts == {c \in Requests : c.kind = "setStatus"}
RowsTold ==
  st.focus = "rows" =>
    /\ Listed(calls, "setStatus")
    /\ \A c, d \in Shifts : c.id < d.id /\ calls[c] = Waiting => calls[d] = Waiting
    /\ \A c \in Shifts : Answered(c) =>
         \/ srv.status[c.arg.id] = c.arg.to
         \/ \E d \in Shifts : c.id < d.id /\ Answered(d) /\ d.arg.id = c.arg.id
    /\ st.outcome # None /\ st.outcome.tone = "success" /\ st.outcome.panel = "items" =>
         \/ srv.status[st.outcome.about.id] = st.outcome.about.to
         \/ \E d \in Shifts : Answered(d) /\ d.arg.id = st.outcome.about.id

\* What was decided does not come back.
PanelsTold ==
  /\ \A c \in Requests : Answered(c) => /\ c.kind = "decide" => c.arg.id \notin srv.suggestions
                                        /\ c.kind = "resolve" => c.arg.id \notin srv.reports
  /\ st.outcome # None /\ st.outcome.tone = "success" =>
       /\ st.outcome.panel = "suggestions" => st.outcome.about.id \notin srv.suggestions
       /\ st.outcome.panel = "reports" => st.outcome.about.id \notin srv.reports

\* A plan is what would be done until it is done.
Barred == {c \in Requests : c.kind \in {"preview", "publish"}}
Done(plan, status) == plan.batch \subseteq With(status, "published") /\ plan.below \subseteq With(status, "draft")
BulkOk ==
  /\ st.focus # "bulk" => st.bulk = NoBulk
  /\ \A c, d \in Barred : c = d
  /\ \A c \in Barred : st.bulk.open
  /\ \A c \in Barred : c.kind = "preview" =>
       st.bulk.phase = "previewing" /\ calls[c] \in {Waiting, BulkPlan(srv.status, c.arg)}
  /\ \A c \in Barred : c.kind = "publish" =>
       /\ st.bulk.phase = "publishing" /\ st.bulk.confirmed \in BulkPlans
       /\ \/ calls[c] = Waiting /\ st.bulk.confirmed = BulkPlan(srv.status, c.arg)
          \/ calls[c] = st.bulk.confirmed /\ Done(st.bulk.confirmed, srv.status)
  /\ st.bulk.phase = "preview" => st.bulk.plan.bar \in Bars /\ st.bulk.plan = BulkPlan(srv.status, st.bulk.plan.bar)
  /\ st.bulk.phase = "done" => st.bulk.plan = st.bulk.confirmed /\ Done(st.bulk.confirmed, srv.status)

\* Rows, panels, categories and what is said of the last change are true, or a
\* change was made whose answer will have them loaded again.
AdminCore == AdminType /\ ListsOk /\ CatsOk /\ RowsTold /\ PanelsTold /\ BulkOk

-----------------------------------------------------------------------------

\* The steps that this page takes while nobody else does anything.
LEMMA AdminSteps ==
  ASSUME page = "adminRegistry", AdminType, Inside
  PROVE  \/ AdminRegistryClick
         \/ \E c \in Requests : \/ c.kind = "categories" /\ ServeRead(c)
                                \/ AdminRegistryServe(c) \/ (Answer(c) # Waiting /\ AdminRegistryArrive(c))
<1>1. \A c \in Requests : c.kind \in {"list", "panels", "categories", "preview", "setStatus", "decide", "resolve", "publish",
                                      "saveCategory", "deleteCategory"}
  BY DEF AdminType, AdminAsk, Writing, Filing
<1>2. \A c \in Requests : ServeRead(c) => c.kind = "categories"
  BY <1>1 DEF AdminType, AdminSrv, ServeRead
<1>3. QED
  BY <1>1, <1>2 DEF Inside, Click, ServeSome, Serve, ArriveSome, Arrive, TimerSome, PosturePages, FilterPages,
       InstallUrlServed, DetailsServe, ReportServe, AgentServe, RegistryServe, SubmitServe, NewItemServe

LEMMA WithFacts ==
  ASSUME NEW status \in [Items -> Conditions], NEW s
  PROVE  With(status, s) \subseteq Items /\ \A i \in With(status, s) : status[i] = s
BY DEF With

LEMMA PanelsOfFacts ==
  ASSUME NEW r, AdminSrv(r)
  PROVE  /\ PanelsOf(r) \in PanelRecords /\ PanelsOf(r) \notin Marks
         /\ PanelsOf(r).suggestions = r.suggestions /\ PanelsOf(r).reports = r.reports
<1>1. r.status \in [Items -> Conditions] /\ r.suggestions \in SUBSET Items /\ r.reports \in SUBSET Items
  BY DEF AdminSrv
<1>2. PanelsOf(r) \in PanelRecords
  BY <1>1, WithFacts DEF PanelsOf, PanelRecords
<1>3. QED BY <1>2, AdminAssumption DEF PanelsOf

LEMMA ListPageFacts ==
  ASSUME NEW status \in [Items -> Conditions], NEW q
  PROVE  ListPage(status, q) \notin Marks
<1> DEFINE l == ListPage(status, q)
<1>1. PICK s \in SUBSET Items : l = [i \in s |-> status[i]]
  BY DEF ListPage
<1>2. l \in [s -> Conditions]
  BY <1>1
<1>3. QED BY <1>2, AdminAssumption

LEMMA BulkPlanFacts ==
  ASSUME NEW status \in [Items -> Conditions], NEW bar \in Bars
  PROVE  /\ BulkPlan(status, bar) \in BulkPlans /\ BulkPlan(status, bar) \notin Marks /\ BulkPlan(status, bar).bar = bar
         /\ BulkPlan(status, bar).batch \subseteq With(status, "draft")
         /\ BulkPlan(status, bar).below \subseteq With(status, "published")
<1> DEFINE below  == {i \in With(status, "published") : StarsOf[i] \in 1..(bar - 1)}
           taken  == {Repository[i] : i \in With(status, "published") \ below}
           fresh  == {i \in With(status, "draft") \cap Synced : StarsOf[i] >= bar /\ Repository[i] \notin taken}
           best   == {i \in fresh \cap Complete : \A j \in fresh \cap Complete : Repository[i] = Repository[j] => StarsOf[j] <= StarsOf[i]}
           batch  == {i \in best : Cardinality({j \in best : StarsOf[j] > StarsOf[i]}) < MaxPerCall}
           rest   == Cardinality(best \ batch)
<1>1. BulkPlan(status, bar) = [bar |-> bar, batch |-> batch, below |-> below, remaining |-> rest]
  BY DEF BulkPlan
<1>2. below \subseteq With(status, "published") /\ batch \subseteq With(status, "draft")
  OBVIOUS
<1>3. best \ batch \subseteq {"i1"} \cup {"i2"} \cup {"i3"}
  BY DEF Complete
<1> HIDE DEF below, batch, best
<1>4. rest \in Nat
  <2>1. IsFiniteSet({"i1"} \cup {"i2"} \cup {"i3"})
    BY FS_Singleton, FS_Union
  <2>2. IsFiniteSet(best \ batch)
    BY <1>3, <2>1, FS_Subset
  <2>3. QED BY <2>2, FS_CardinalityType
<1> HIDE DEF rest
<1>5. below \in SUBSET Items /\ batch \in SUBSET Items
  BY <1>2, WithFacts
<1>6. BulkPlan(status, bar) \in BulkPlans
  BY <1>1, <1>4, <1>5 DEF BulkPlans
<1>7. QED BY <1>1, <1>2, <1>6, AdminAssumption

-----------------------------------------------------------------------------
(* Steps of page and reader *)

LEMMA AdminSent ==
  ASSUME VisitType, AdminType, NEW kept \in SUBSET Requests, NEW new, Sends(kept, new), srv' = srv,
         AdminState(st'), st'.focus = st.focus,
         \A o \in kept : o.kind = "list" => o.arg = st'.query,
         \A r \in new : AdminAsk(r, st.focus) /\ (r.kind = "list" => r.arg = st'.query)
  PROVE  AdminType'
<1>1. /\ Requests' = kept \cup New(new) /\ \A o \in kept : calls'[o] = calls[o]
      /\ \A o \in New(new) : calls'[o] = Waiting
  BY DEF Sends
<1>2. ASSUME NEW o \in New(new)
      PROVE  AdminAsk(o, st.focus) /\ (o.kind = "list" => o.arg = st'.query)
  <2>1. PICK r \in new : o.kind = r.kind /\ o.arg = r.arg
    BY NewFacts
  <2>2. QED BY <2>1 DEF AdminAsk
<1>3. QED BY <1>1, <1>2 DEF AdminType

\* What neither changes nor asks for lists.
LEMMA ListsSame ==
  ASSUME VisitType, AdminType, ListsOk, NEW kept \in SUBSET Requests, NEW new, Sends(kept, new), srv' = srv,
         \A o \in Requests : o \notin kept => o.kind \notin {"list", "panels"} /\ ~(o.kind \in Writing /\ Answered(o)),
         \A r \in new : r.kind \notin {"list", "panels"},
         st'.query = st.query, st'.rows = st.rows, st'.shown = st.shown, st'.panels = st.panels
  PROVE  ListsOk'
<1>1. Requests' = kept \cup New(new) /\ \A o \in kept : calls'[o] = calls[o]
  BY DEF Sends
<1>2. ListsChanged => ListsChanged'
  BY <1>1 DEF ListsChanged, Answered, Answer
<1>3. ASSUME NEW k \in {"list", "panels"}, NEW v, Alone(calls, k, v)
      PROVE  Alone(calls', k, v) /\ (Sought(calls, k) => Sought(calls', k))
  <2>1. Alone(calls', k, v) /\ (Sought(calls', k) <=> \E o \in kept : o.kind = k)
    BY <1>3, SendsAlone
  <2>2. QED BY <2>1 DEF Sought, Requests
<1>4. ListsFresh => ListsFresh'
  BY <1>3 DEF ListsFresh
<1>5. QED BY <1>2, <1>4 DEF ListsOk

\* Both are asked for anew.
LEMMA ListsRenewed ==
  ASSUME VisitType, NEW kept \in SUBSET Requests, NEW new, Sends(kept, new),
         \A o \in kept : o.kind \notin {"list", "panels"},
         \E r \in new : r.kind = "list", \E r \in new : r.kind = "panels",
         \A k \in {"list", "panels"} : \A q, r \in new : q.kind = k /\ r.kind = k => q.arg = r.arg
  PROVE  ListsOk'
<1>1. Sought(calls', "list") /\ \A v : Alone(calls', "list", v)
  BY RenewsAlone
<1>2. Sought(calls', "panels") /\ \A v : Alone(calls', "panels", v)
  BY RenewsAlone
<1>3. QED BY <1>1, <1>2 DEF ListsOk, ListsFresh

LEMMA CatsSame ==
  ASSUME VisitType, AdminType, CatsOk, NEW kept \in SUBSET Requests, NEW new, Sends(kept, new), srv' = srv,
         \A o \in Requests : o \notin kept => o.kind # "categories" /\ ~(o.kind \in Filing /\ Answered(o)),
         \A r \in new : r.kind # "categories", st'.categories = st.categories
  PROVE  CatsOk'
<1>1. Requests' = kept \cup New(new) /\ \A o \in kept : calls'[o] = calls[o]
  BY DEF Sends
<1>2. CatsChanged => CatsChanged'
  BY <1>1 DEF CatsChanged, Answered, Answer
<1>3. CatsFresh => CatsFresh'
  <2>1. ASSUME CatsFresh PROVE Alone(calls', "categories", srv.categories) /\ (Sought(calls', "categories") <=> \E o \in kept : o.kind = "categories")
    BY <2>1, SendsAlone DEF CatsFresh
  <2>2. QED BY <2>1 DEF CatsFresh, Sought, Requests
<1>4. QED BY <1>2, <1>3 DEF CatsOk

LEMMA CatsRenewed ==
  ASSUME VisitType, NEW kept \in SUBSET Requests, NEW new, Sends(kept, new), \A o \in kept : o.kind # "categories",
         \E r \in new : r.kind = "categories",
         \A q, r \in new : q.kind = "categories" /\ r.kind = "categories" => q.arg = r.arg
  PROVE  CatsOk'
<1>1. Sought(calls', "categories") /\ \A v : Alone(calls', "categories", v)
  BY RenewsAlone
<1>2. QED BY <1>1 DEF CatsOk, CatsFresh

\* A change that is asked for comes after those that were; a result is only
\* withdrawn.
LEMMA RowsSent ==
  ASSUME VisitType, RowsTold, NEW kept \in SUBSET Requests, NEW new, Sends(kept, new), srv' = srv, st'.focus = st.focus,
         \A o \in Requests : o \notin kept => o.kind # "setStatus",
         \A q, r \in new : q.kind = "setStatus" /\ r.kind = "setStatus" => q.arg = r.arg,
         st'.outcome = st.outcome \/ st'.outcome = None
  PROVE  RowsTold'
<1> SUFFICES ASSUME st.focus = "rows" PROVE RowsTold'
  BY DEF RowsTold
<1>1. Listed(calls', "setStatus")
  BY SendsListed DEF RowsTold
<1>2. /\ Requests' = kept \cup New(new) /\ \A o \in kept : calls'[o] = calls[o]
      /\ \A o \in New(new) : calls'[o] = Waiting
  BY DEF Sends
<1>3. ASSUME NEW o \in New(new), NEW d \in Requests' PROVE ~(o.id < d.id)
  BY <1>2, NewFacts DEF VisitType
<1>4. ASSUME NEW c \in Shifts', Answered(c)'
      PROVE  c \in Shifts /\ Answered(c)
  BY <1>2, <1>4 DEF Shifts, Answered, Answer
<1>5. ASSUME NEW d \in Shifts, Answered(d)
      PROVE  d \in Shifts' /\ Answered(d)'
  BY <1>2, <1>5 DEF Shifts, Answered, Answer
<1>6. \A c, d \in Shifts' : c.id < d.id /\ calls'[c] = Waiting => calls'[d] = Waiting
  BY <1>2, <1>3 DEF Shifts, RowsTold
<1>7. ASSUME NEW c \in Shifts', Answered(c)'
      PROVE  srv.status[c.arg.id] = c.arg.to \/ \E d \in Shifts' : c.id < d.id /\ Answered(d)' /\ d.arg.id = c.arg.id
  <2>1. c \in Shifts /\ Answered(c)
    BY <1>4, <1>7
  <2>2. QED BY <1>5, <2>1 DEF RowsTold
<1>8. st'.outcome # None /\ st'.outcome.tone = "success" /\ st'.outcome.panel = "items" =>
         \/ srv.status[st'.outcome.about.id] = st'.outcome.about.to
         \/ \E d \in Shifts' : Answered(d)' /\ d.arg.id = st'.outcome.about.id
  BY <1>5 DEF RowsTold
<1>9. QED BY <1>1, <1>6, <1>7, <1>8 DEF RowsTold

LEMMA PanelsSent ==
  ASSUME VisitType, PanelsTold, NEW kept \in SUBSET Requests, NEW new, Sends(kept, new), srv' = srv,
         st'.outcome = st.outcome \/ st'.outcome = None
  PROVE  PanelsTold'
BY DEF PanelsTold, Sends, Answered, Answer

LEMMA BulkSame ==
  ASSUME VisitType, BulkOk, NEW kept \in SUBSET Requests, NEW new, Sends(kept, new), srv' = srv,
         st'.focus = st.focus, st'.bulk = st.bulk, \A r \in new : r.kind \notin {"preview", "publish"}
  PROVE  BulkOk'
<1>1. Requests' = kept \cup New(new) /\ \A o \in kept : calls'[o] = calls[o]
  BY DEF Sends
<1>2. \A o \in New(new) : o.kind \notin {"preview", "publish"}
  BY NewFacts
<1>3. \A c \in Barred' : c \in Barred /\ calls'[c] = calls[c]
  BY <1>1, <1>2 DEF Barred
<1>4. QED BY <1>3 DEF BulkOk

\* What a step of the reader may ask for besides the list, and what it leaves.
AdminAsks(new) ==
  /\ \A r \in new : AdminAsk(r, st.focus) /\ r.kind \notin {"list", "panels", "categories"}
  /\ \A q, r \in new : q = r

AdminSame(s) ==
  /\ AdminState(s) /\ s.focus = st.focus /\ s.query = st.query /\ s.rows = st.rows /\ s.shown = st.shown
  /\ s.panels = st.panels /\ s.categories = st.categories
  /\ s.outcome = st.outcome \/ s.outcome = None

LEMMA AdminActs ==
  ASSUME VisitType, AdminCore, NEW s, NEW new, Acts(s, {}, new), AdminSame(s), AdminAsks(new)
  PROVE  /\ AdminType' /\ ListsOk' /\ CatsOk' /\ RowsTold' /\ PanelsTold'
         /\ s.bulk = st.bulk /\ (\A r \in new : r.kind \notin {"preview", "publish"}) => BulkOk'
<1>1. Requests \ {} = Requests /\ Requests \in SUBSET Requests
  OBVIOUS
<1>2. Sends(Requests, new) /\ srv' = srv /\ st' = s
  BY <1>1, ActsFacts
<1>3. AdminType'
  BY <1>1, <1>2, AdminSent DEF AdminCore, AdminType, AdminSame, AdminAsks
<1>4. ListsOk'
  BY <1>1, <1>2, ListsSame DEF AdminCore, AdminSame, AdminAsks
<1>5. CatsOk'
  BY <1>1, <1>2, CatsSame DEF AdminCore, AdminSame, AdminAsks
<1>6. RowsTold'
  BY <1>1, <1>2, RowsSent DEF AdminCore, AdminSame, AdminAsks
<1>7. PanelsTold'
  BY <1>1, <1>2, PanelsSent DEF AdminCore, AdminSame
<1>8. ASSUME s.bulk = st.bulk, \A r \in new : r.kind \notin {"preview", "publish"} PROVE BulkOk'
  BY <1>1, <1>2, <1>8, BulkSame DEF AdminCore, AdminSame
<1>9. QED BY <1>3, <1>4, <1>5, <1>6, <1>7, <1>8

LEMMA AdminRowsClick ==
  ASSUME VisitType, AdminCore, st.focus = "rows", RowsClick
  PROVE  AdminCore'
<1>1. AdminState(st)
  BY DEF AdminCore, AdminType
<1>2. ASSUME NEW q, AskList(q)
      PROVE  AdminCore'
  <2> DEFINE s == [st EXCEPT !.query = q]
             kept == Requests \ Asking({"list"})
             new == {Ask("list", q)}
  <2>1. Sends(kept, new) /\ srv' = srv /\ st' = s /\ kept \in SUBSET Requests
    BY <1>2, ActsFacts DEF AskList
  <2>2. /\ AdminState(s) /\ s.focus = st.focus /\ s.query = q /\ s.rows = st.rows /\ s.shown = st.shown
        /\ s.panels = st.panels /\ s.categories = st.categories /\ s.outcome = st.outcome /\ s.bulk = st.bulk
    BY <1>1 DEF AdminState
  <2>3. /\ \A r \in new : r.kind = "list" /\ r.arg = q
        /\ \E r \in new : r.kind = "list"
    BY DEF Ask
  <2>4. \A o \in Requests : o \notin kept <=> o.kind = "list"
    BY DEF Asking
  <2> HIDE DEF s, new, kept
  <2>5. AdminType'
    <3>1. \A r \in new : AdminAsk(r, st.focus)
      BY <2>3 DEF AdminAsk, Writing, Filing
    <3>2. QED BY <2>1, <2>2, <2>3, <2>4, <3>1, AdminSent DEF AdminCore
  <2>6. ListsOk'
    <3>1. Requests' = kept \cup New(new) /\ \A o \in kept : calls'[o] = calls[o]
      BY <2>1 DEF Sends
    <3>2. ListsChanged => ListsChanged'
      BY <2>4, <3>1 DEF ListsChanged, Answered, Answer, Writing
    <3>3. Sought(calls', "list") /\ \A v : Alone(calls', "list", v)
      BY <2>1, <2>3, <2>4, RenewsAlone
    <3>4. ASSUME NEW v, Alone(calls, "panels", v)
          PROVE  Alone(calls', "panels", v) /\ (Sought(calls, "panels") => Sought(calls', "panels"))
      <4>1. Alone(calls', "panels", v) /\ (Sought(calls', "panels") <=> \E o \in kept : o.kind = "panels")
        BY <2>1, <2>3, <3>4, SendsAlone
      <4>2. QED BY <2>4, <4>1 DEF Sought, Requests
    <3>5. ListsFresh => ListsFresh'
      BY <2>1, <2>2, <3>3, <3>4 DEF ListsFresh
    <3>6. QED BY <3>2, <3>5 DEF AdminCore, ListsOk
  <2>7. CatsOk'
    BY <2>1, <2>2, <2>3, <2>4, CatsSame DEF AdminCore, Filing
  <2>8. RowsTold'
    BY <2>1, <2>2, <2>3, <2>4, RowsSent DEF AdminCore
  <2>9. PanelsTold'
    BY <2>1, <2>2, PanelsSent DEF AdminCore
  <2>10. BulkOk'
    BY <2>1, <2>2, <2>3, BulkSame DEF AdminCore
  <2>11. QED BY <2>5, <2>6, <2>7, <2>8, <2>9, <2>10 DEF AdminCore
<1>3. ASSUME NEW i \in Worked, NEW to \in RowActions(st.rows[i]), Act(i, "setStatus", "items", to)
      PROVE  AdminCore'
  <2> DEFINE a == [id |-> i, panel |-> "items", to |-> to]
             s == [st EXCEPT !.busy = i, !.outcome = None]
             new == {Ask("setStatus", a)}
  <2>1. Acts(s, {}, new)
    BY <1>3 DEF Act
  <2>2. to \in Conditions /\ i \in Items
    BY DEF RowActions, Conditions, Worked, Items
  <2>3. a.id = i /\ a.panel = "items" /\ a.to = to
    OBVIOUS
  <2> HIDE DEF a
  <2>4. AdminAsks(new) /\ \A r \in new : r.kind \notin {"preview", "publish"}
    <3>1. Ask("setStatus", a).kind = "setStatus" /\ Ask("setStatus", a).arg = a
      BY DEF Ask
    <3>2. QED BY <2>2, <2>3, <3>1 DEF AdminAsks, AdminAsk, Writing, Filing
  <2>5. AdminSame(s) /\ s.bulk = st.bulk
    BY <1>1 DEF AdminSame, AdminState
  <2> HIDE DEF s, new
  <2>6. QED BY <2>1, <2>4, <2>5, AdminActs DEF AdminCore
<1>4. QED BY <1>2, <1>3 DEF RowsClick

LEMMA AdminPanelsClick ==
  ASSUME VisitType, AdminCore, st.focus = "panels", PanelsClick
  PROVE  AdminCore'
<1>1. AdminState(st)
  BY DEF AdminCore, AdminType
<1>2. ASSUME NEW i, NEW k, NEW p, NEW to, Act(i, k, p, to),
             \/ k = "decide" /\ p = "suggestions" /\ i \in Items
             \/ k = "resolve" /\ p = "reports"
      PROVE  AdminCore'
  <2> DEFINE a == [id |-> i, panel |-> p, to |-> to]
             s == [st EXCEPT !.busy = i, !.outcome = None]
             new == {Ask(k, a)}
  <2>1. Acts(s, {}, new)
    BY <1>2 DEF Act
  <2>2. a.id = i /\ a.panel = p /\ a.to = to
    OBVIOUS
  <2> HIDE DEF a
  <2>3. AdminAsks(new) /\ \A r \in new : r.kind \notin {"preview", "publish"}
    <3>1. Ask(k, a).kind = k /\ Ask(k, a).arg = a
      BY DEF Ask
    <3>2. QED BY <1>2, <2>2, <3>1 DEF AdminAsks, AdminAsk, Writing, Filing
  <2>4. AdminSame(s) /\ s.bulk = st.bulk
    BY <1>1 DEF AdminSame, AdminState
  <2> HIDE DEF s, new
  <2>5. QED BY <2>1, <2>3, <2>4, AdminActs DEF AdminCore
<1>3. st.panels # None => st.panels.suggestions \subseteq Items
  BY <1>1 DEF AdminState, PanelRecords
<1>4. QED BY <1>2, <1>3 DEF PanelsClick

LEMMA AdminCategoriesClick ==
  ASSUME VisitType, AdminCore, st.focus = "categories", CategoriesClick
  PROVE  AdminCore'
<1>1. AdminState(st)
  BY DEF AdminCore, AdminType
<1>2. CASE Acts([st EXCEPT !.naming = TRUE], {}, {})
  <2> DEFINE s == [st EXCEPT !.naming = TRUE]
  <2>1. AdminSame(s) /\ s.bulk = st.bulk
    BY <1>1 DEF AdminSame, AdminState
  <2>2. Acts(s, {}, {})
    BY <1>2
  <2>3. AdminAsks({}) /\ \A r \in {} : r.kind \notin {"preview", "publish"}
    BY DEF AdminAsks
  <2> HIDE DEF s
  <2>4. QED BY <2>1, <2>2, <2>3, AdminActs DEF AdminCore
<1>3. ASSUME NEW m, NEW k, NEW c, Acts([st EXCEPT !.saving = m], {}, {Ask(k, c)}), (k = "saveCategory" /\ c = "c2") \/ k = "deleteCategory"
      PROVE  AdminCore'
  <2> DEFINE s == [st EXCEPT !.saving = m]
             new == {Ask(k, c)}
  <2>1. AdminSame(s) /\ s.bulk = st.bulk
    BY <1>1 DEF AdminSame, AdminState
  <2>2. Acts(s, {}, new)
    BY <1>3
  <2>3. AdminAsks(new) /\ \A r \in new : r.kind \notin {"preview", "publish"}
    <3>1. Ask(k, c).kind = k /\ Ask(k, c).arg = c
      BY DEF Ask
    <3>2. QED BY <1>3, <3>1 DEF AdminAsks, AdminAsk, Writing, Filing
  <2> HIDE DEF s, new
  <2>4. QED BY <2>1, <2>2, <2>3, AdminActs DEF AdminCore
<1>4. QED BY <1>2, <1>3 DEF CategoriesClick

LEMMA AdminBulkClick ==
  ASSUME VisitType, AdminCore, st.focus = "bulk", BulkClick
  PROVE  AdminCore'
<1>1. AdminState(st) /\ srv.status \in [Items -> Conditions]
  BY DEF AdminCore, AdminType, AdminSrv
<1>2. ~st.bulk.open \/ ~BulkBusy => Barred = {}
  BY DEF AdminCore, BulkOk, Barred, BulkBusy
<1>3. ASSUME NEW s, NEW new, Acts(s, {}, new), Barred = {}
      PROVE  /\ st' = s /\ srv' = srv
             /\ \A c \in Barred' : c \in New(new) /\ calls'[c] = Waiting /\ c.id = issued + 1 /\ Formed(c) /\ \E r \in new : c.kind = r.kind /\ c.arg = r.arg
  <2>1. Requests \ {} = Requests
    OBVIOUS
  <2>2. Sends(Requests, new) /\ st' = s /\ srv' = srv
    BY <1>3, <2>1, ActsFacts
  <2>3. Requests' = Requests \cup New(new) /\ \A o \in New(new) : calls'[o] = Waiting
    BY <2>2 DEF Sends
  <2>4. QED BY <1>3, <2>2, <2>3, NewFacts DEF Barred
<1>4. ASSUME NEW bar \in Bars, Preview(bar), Barred = {}
      PROVE  AdminCore'
  <2> DEFINE b == [NoBulk EXCEPT !.open = TRUE]
             s == [st EXCEPT !.bulk = b]
             new == {Ask("preview", bar)}
  <2>1. Acts(s, {}, new)
    BY <1>4 DEF Preview
  <2>2. DOMAIN b = {"open", "phase", "plan", "confirmed"} /\ b.open = TRUE /\ b.phase = "previewing"
    BY DEF NoBulk
  <2> HIDE DEF b
  <2>3. AdminSame(s) /\ s.bulk = b
    BY <1>1, <2>2 DEF AdminSame, AdminState
  <2>4. \A r \in new : r.kind = "preview" /\ r.arg = bar
    BY DEF Ask
  <2>5. AdminAsks(new)
    BY <2>4 DEF AdminAsks, AdminAsk, Writing, Filing
  <2> HIDE DEF s, new
  <2>6. AdminType' /\ ListsOk' /\ CatsOk' /\ RowsTold' /\ PanelsTold'
    BY <2>1, <2>3, <2>5, AdminActs
  <2>7. st' = s /\ \A c \in Barred' : calls'[c] = Waiting /\ c.kind = "preview" /\ c = [id |-> issued + 1, kind |-> "preview", arg |-> bar]
    BY <1>3, <1>4, <2>1, <2>4 DEF Formed
  <2>8. st'.bulk.open = TRUE /\ st'.bulk.phase = "previewing" /\ st'.focus = "bulk"
    BY <2>2, <2>3, <2>7 DEF AdminSame
  <2>9. BulkOk'
    BY <2>7, <2>8 DEF BulkOk
  <2>10. QED BY <2>6, <2>9 DEF AdminCore
<1>5. ASSUME Publish, st.bulk.phase = "preview", Barred = {}, st.bulk.open
      PROVE  AdminCore'
  <2> DEFINE s == [st EXCEPT !.bulk.phase = "publishing", !.bulk.confirmed = st.bulk.plan]
             new == {Ask("publish", st.bulk.plan.bar)}
  <2>1. Acts(s, {}, new)
    BY <1>5 DEF Publish
  <2>2. st.bulk.plan.bar \in Bars /\ st.bulk.plan = BulkPlan(srv.status, st.bulk.plan.bar)
    BY <1>5 DEF AdminCore, BulkOk
  <2>3. /\ DOMAIN s = DOMAIN st /\ s.focus = st.focus /\ s.query = st.query /\ s.rows = st.rows /\ s.shown = st.shown
        /\ s.panels = st.panels /\ s.categories = st.categories /\ s.outcome = st.outcome
    BY <1>1 DEF AdminState
  <2>4. DOMAIN s.bulk = DOMAIN st.bulk /\ s.bulk.phase = "publishing" /\ s.bulk.confirmed = st.bulk.plan /\ s.bulk.open = st.bulk.open
    BY <1>1 DEF AdminState
  <2>5. AdminSame(s)
    BY <1>1, <2>3, <2>4 DEF AdminSame, AdminState
  <2>6. \A r \in new : r.kind = "publish" /\ r.arg = st.bulk.plan.bar
    BY DEF Ask
  <2>7. AdminAsks(new)
    BY <2>2, <2>6 DEF AdminAsks, AdminAsk, Writing, Filing
  <2> HIDE DEF s, new
  <2>8. AdminType' /\ ListsOk' /\ CatsOk' /\ RowsTold' /\ PanelsTold'
    BY <2>1, <2>5, <2>7, AdminActs
  <2>9. /\ st' = s /\ srv' = srv
        /\ \A c \in Barred' : /\ calls'[c] = Waiting /\ c.kind = "publish" /\ c.arg = st.bulk.plan.bar
                              /\ c = [id |-> issued + 1, kind |-> "publish", arg |-> st.bulk.plan.bar]
    BY <1>3, <1>5, <2>1, <2>6 DEF Formed
  <2>10. st.bulk.plan \in BulkPlans
    BY <1>1, <2>2, BulkPlanFacts
  <2>11. st'.bulk.open = st.bulk.open /\ st'.bulk.phase = "publishing" /\ st'.bulk.confirmed = st.bulk.plan /\ st'.focus = "bulk"
    BY <2>3, <2>4, <2>9
  <2>12. BulkOk'
    BY <1>5, <2>2, <2>9, <2>10, <2>11 DEF BulkOk
  <2>13. QED BY <2>8, <2>12 DEF AdminCore
<1>6. ASSUME Acts([st EXCEPT !.bulk.open = FALSE], {}, {}), Barred = {}
      PROVE  AdminCore'
  <2> DEFINE s == [st EXCEPT !.bulk.open = FALSE]
  <2>1. Acts(s, {}, {})
    BY <1>6
  <2>2. /\ DOMAIN s = DOMAIN st /\ s.focus = st.focus /\ s.query = st.query /\ s.rows = st.rows /\ s.shown = st.shown
        /\ s.panels = st.panels /\ s.categories = st.categories /\ s.outcome = st.outcome
    BY <1>1 DEF AdminState
  <2>3. DOMAIN s.bulk = DOMAIN st.bulk /\ s.bulk.phase = st.bulk.phase /\ s.bulk.confirmed = st.bulk.confirmed /\ s.bulk.plan = st.bulk.plan
    BY <1>1 DEF AdminState
  <2>4. AdminSame(s)
    BY <1>1, <2>2, <2>3 DEF AdminSame, AdminState
  <2>5. AdminAsks({})
    BY DEF AdminAsks
  <2> HIDE DEF s
  <2>6. AdminType' /\ ListsOk' /\ CatsOk' /\ RowsTold' /\ PanelsTold'
    BY <2>1, <2>4, <2>5, AdminActs
  <2>7. st' = s /\ srv' = srv /\ Barred' = {}
    BY <1>3, <1>6, <2>1
  <2>8. BulkOk'
    BY <2>2, <2>3, <2>7 DEF BulkOk, AdminCore
  <2>9. QED BY <2>6, <2>8 DEF AdminCore
<1>7. 50 \in Bars
  BY DEF Bars
<1>8. QED BY <1>2, <1>4, <1>5, <1>6, <1>7 DEF BulkClick

-----------------------------------------------------------------------------
(* Steps of the server *)

LEMMA AdminServed ==
  ASSUME VisitType, AdminType, NEW c \in Requests, NEW a, NEW r, Replies(c, a, r), AdminSrv(r),
         c.kind = "panels" => a \in PanelRecords
  PROVE  AdminType'
<1>1. st' = st /\ srv' = r /\ Requests' = Requests /\ calls'[c] = a /\ \A o \in Requests \ {c} : calls'[o] = calls[o]
  BY RepliesFacts
<1>2. QED BY <1>1 DEF AdminType

LEMMA ListsServed ==
  ASSUME VisitType, AdminType, ListsOk, NEW c \in Requests, NEW a, NEW r, Replies(c, a, r),
         \/ /\ r.status = srv.status /\ r.suggestions = srv.suggestions /\ r.reports = srv.reports
            /\ c.kind = "list" => a = ListPage(srv.status, c.arg)
            /\ c.kind = "panels" => a = PanelsOf(srv)
         \/ c.kind \in Writing /\ a \notin {Waiting, Failed}
  PROVE  ListsOk'
<1>1. /\ st' = st /\ srv' = r /\ Requests' = Requests /\ calls[c] = Waiting
      /\ calls'[c] = a /\ \A o \in Requests \ {c} : calls'[o] = calls[o]
  BY RepliesFacts
<1>2. ListsChanged => ListsChanged'
  BY <1>1 DEF ListsChanged, Answered, Answer
<1>3. CASE c.kind \in Writing /\ a \notin {Waiting, Failed}
  BY <1>1, <1>3 DEF ListsOk, ListsChanged, Answered, Answer
<1>4. CASE /\ r.status = srv.status /\ r.suggestions = srv.suggestions /\ r.reports = srv.reports
           /\ c.kind = "list" => a = ListPage(srv.status, c.arg)
           /\ c.kind = "panels" => a = PanelsOf(srv)
  <2>1. PanelsOf(r) = PanelsOf(srv)
    BY <1>4 DEF PanelsOf
  <2>2. c.kind = "list" => c.arg = st.query
    BY DEF AdminType
  <2>3. ASSUME NEW k, NEW v, Alone(calls, k, v), c.kind = k => a = v
        PROVE  Alone(calls', k, v) /\ (Sought(calls', k) <=> Sought(calls, k))
    BY <2>3, RepliesAlone
  <2>4. ListsFresh => ListsFresh'
    BY <1>1, <1>4, <2>1, <2>2, <2>3 DEF ListsFresh
  <2>5. QED BY <1>2, <2>4 DEF ListsOk
<1>5. QED BY <1>3, <1>4

LEMMA CatsServed ==
  ASSUME VisitType, CatsOk, NEW c \in Requests, NEW a, NEW r, Replies(c, a, r),
         \/ r.categories = srv.categories /\ (c.kind = "categories" => a = srv.categories)
         \/ c.kind \in Filing /\ a \notin {Waiting, Failed}
  PROVE  CatsOk'
<1>1. /\ st' = st /\ srv' = r /\ Requests' = Requests /\ calls[c] = Waiting
      /\ calls'[c] = a /\ \A o \in Requests \ {c} : calls'[o] = calls[o]
  BY RepliesFacts
<1>2. CatsChanged => CatsChanged'
  BY <1>1 DEF CatsChanged, Answered, Answer
<1>3. CASE c.kind \in Filing /\ a \notin {Waiting, Failed}
  BY <1>1, <1>3 DEF CatsOk, CatsChanged, Answered, Answer
<1>4. CASE r.categories = srv.categories /\ (c.kind = "categories" => a = srv.categories)
  <2>1. CatsFresh => CatsFresh'
    BY <1>1, <1>4, RepliesAlone DEF CatsFresh
  <2>2. QED BY <1>2, <2>1 DEF CatsOk
<1>5. QED BY <1>3, <1>4

\* What is handled is the last of its row that has been.
LEMMA RowsServed ==
  ASSUME VisitType, AdminType, RowsTold, ~overtaken', NEW c \in Requests, NEW a, NEW r, Replies(c, a, r),
         \/ st.focus # "rows"
         \/ r.status = srv.status /\ (c.kind = "setStatus" => a = Failed)
         \/ c.kind = "setStatus" /\ a \notin {Waiting, Failed} /\ r.status = [srv.status EXCEPT ![c.arg.id] = c.arg.to]
  PROVE  RowsTold'
<1> SUFFICES ASSUME st.focus = "rows" PROVE RowsTold'
  BY RepliesFacts DEF RowsTold
<1>1. /\ st' = st /\ srv' = r /\ Requests' = Requests /\ calls[c] = Waiting
      /\ calls'[c] = a /\ \A o \in Requests \ {c} : calls'[o] = calls[o]
      /\ \A o \in Requests : o.kind = c.kind /\ o.id < c.id => calls[o] # Waiting
  BY RepliesFacts
<1>2. Shifts' = Shifts
  BY <1>1 DEF Shifts
<1>3. Listed(calls', "setStatus")
  BY <1>1 DEF RowsTold, Listed, Requests
<1>4. \A d, e \in Shifts : d.id < e.id /\ calls'[d] = Waiting => calls'[e] = Waiting
  BY <1>1 DEF RowsTold, Shifts
<1>5. \A d \in Shifts : Answered(d) => Answered(d)'
  BY <1>1 DEF Answered, Answer, Shifts
<1>6. CASE r.status = srv.status /\ (c.kind = "setStatus" => a = Failed)
  <2>1. \A d \in Shifts : Answered(d)' => Answered(d)
    BY <1>1, <1>6 DEF Answered, Answer, Shifts
  <2>2. QED BY <1>1, <1>2, <1>3, <1>4, <1>5, <1>6, <2>1 DEF RowsTold
<1>7. CASE c.kind = "setStatus" /\ a \notin {Waiting, Failed} /\ r.status = [srv.status EXCEPT ![c.arg.id] = c.arg.to]
  <2>1. c \in Shifts /\ Answered(c)' /\ c.arg.id \in DOMAIN srv.status
    BY <1>1, <1>7 DEF Answered, Answer, Shifts, AdminType, AdminAsk, AdminSrv
  <2>2. r.status[c.arg.id] = c.arg.to /\ \A i \in DOMAIN srv.status : i # c.arg.id => r.status[i] = srv.status[i]
    BY <1>7, <2>1
  <2>3. \A d \in Shifts : Answered(d)' => d = c \/ Answered(d)
    BY <1>1 DEF Answered, Answer, Shifts
  <2>4. ASSUME NEW d \in Shifts, Answered(d) PROVE d.id < c.id
    <3>1. d # c /\ d.id \in Nat /\ c.id \in Nat
      BY <1>1, <2>4 DEF Answered, Answer, VisitType, Shifts
    <3>2. d.id # c.id
      BY <2>1, <3>1 DEF Listed, RowsTold, Shifts, Requests
    <3>3. ~(c.id < d.id)
      BY <1>1, <2>1, <2>4 DEF RowsTold, Answered, Answer
    <3>4. QED BY <3>1, <3>2, <3>3
  <2>5. ASSUME NEW d \in Shifts, Answered(d)'
        PROVE  r.status[d.arg.id] = d.arg.to \/ \E e \in Shifts : d.id < e.id /\ Answered(e)' /\ e.arg.id = d.arg.id
    <3>1. CASE d.arg.id = c.arg.id
      BY <2>1, <2>2, <2>3, <2>4, <2>5, <3>1
    <3>2. CASE d.arg.id # c.arg.id
      <4>1. Answered(d) /\ d.arg.id \in DOMAIN srv.status
        BY <2>3, <2>5, <3>2 DEF Shifts, AdminType, AdminAsk, AdminSrv
      <4>2. QED BY <1>5, <2>2, <3>2, <4>1 DEF RowsTold
    <3>3. QED BY <3>1, <3>2
  <2>6. ASSUME st.outcome # None, st.outcome.tone = "success", st.outcome.panel = "items"
        PROVE  \/ r.status[st.outcome.about.id] = st.outcome.about.to
               \/ \E d \in Shifts : Answered(d)' /\ d.arg.id = st.outcome.about.id
    <3>1. CASE st.outcome.about.id = c.arg.id
      BY <2>1, <3>1
    <3>2. CASE st.outcome.about.id # c.arg.id
      <4>1. CASE st.outcome.about.id \in DOMAIN srv.status
        BY <1>5, <2>2, <2>6, <3>2, <4>1 DEF RowsTold
      <4>2. CASE st.outcome.about.id \notin DOMAIN srv.status
        BY <1>5, <1>7, <2>6, <4>2 DEF RowsTold
      <4>3. QED BY <4>1, <4>2
    <3>3. QED BY <3>1, <3>2
  <2>7. QED BY <1>1, <1>2, <1>3, <1>4, <2>5, <2>6 DEF RowsTold
<1>8. QED BY <1>6, <1>7

LEMMA PanelsServed ==
  ASSUME VisitType, PanelsTold, NEW c \in Requests, NEW a, NEW r, Replies(c, a, r),
         r.suggestions \subseteq srv.suggestions, r.reports \subseteq srv.reports,
         c.kind = "decide" /\ a # Failed => c.arg.id \notin r.suggestions,
         c.kind = "resolve" /\ a # Failed => c.arg.id \notin r.reports
  PROVE  PanelsTold'
<1>1. st' = st /\ srv' = r /\ Requests' = Requests /\ calls'[c] = a /\ \A o \in Requests \ {c} : calls'[o] = calls[o]
  BY RepliesFacts
<1>2. QED BY <1>1 DEF PanelsTold, Answered, Answer

LEMMA BulkUnserved ==
  ASSUME VisitType, AdminType, BulkOk, NEW c \in Requests, NEW a, NEW r, Replies(c, a, r),
         c.kind \notin {"preview", "publish"}, r.status = srv.status \/ st.focus # "bulk"
  PROVE  BulkOk'
<1>1. st' = st /\ srv' = r /\ Requests' = Requests /\ calls'[c] = a /\ \A o \in Requests \ {c} : calls'[o] = calls[o]
  BY RepliesFacts
<1>2. Barred' = Barred /\ \A o \in Barred : calls'[o] = calls[o]
  BY <1>1 DEF Barred
<1>3. CASE st.focus = "bulk"
  BY <1>1, <1>2, <1>3 DEF BulkOk
<1>4. CASE st.focus # "bulk"
  <2>1. Barred = {} /\ st.bulk = NoBulk
    BY <1>4 DEF AdminType, AdminAsk, BulkOk, Barred
  <2>2. st.bulk.phase = "previewing"
    BY <2>1 DEF NoBulk
  <2>3. QED BY <1>1, <1>2, <1>4, <2>1, <2>2 DEF BulkOk
<1>5. QED BY <1>3, <1>4

\* The state of the items after the bar.
Applied(status, plan) ==
  [i \in DOMAIN status |-> IF i \in plan.batch THEN "published" ELSE IF i \in plan.below THEN "draft" ELSE status[i]]

LEMMA AppliedFacts ==
  ASSUME NEW status \in [Items -> Conditions], NEW bar \in Bars
  PROVE  /\ Applied(status, BulkPlan(status, bar)) \in [Items -> Conditions]
         /\ Done(BulkPlan(status, bar), Applied(status, BulkPlan(status, bar)))
<1> DEFINE plan == BulkPlan(status, bar)
<1>1. plan.batch \subseteq With(status, "draft") /\ plan.below \subseteq With(status, "published")
  BY BulkPlanFacts
<1>2. /\ plan.batch \subseteq Items /\ plan.below \subseteq Items
      /\ \A i \in plan.below : i \notin plan.batch
  BY <1>1, WithFacts
<1> HIDE DEF plan
<1>3. Applied(status, plan) \in [Items -> Conditions]
  BY DEF Applied, Conditions
<1>4. /\ \A i \in plan.batch : i \in Items /\ Applied(status, plan)[i] = "published"
      /\ \A i \in plan.below : i \in Items /\ Applied(status, plan)[i] = "draft"
  BY <1>2 DEF Applied
<1>5. DOMAIN Applied(status, plan) = Items
  BY <1>3
<1>6. Done(plan, Applied(status, plan))
  BY <1>4, <1>5 DEF Done, With
<1>7. QED BY <1>3, <1>6 DEF plan

LEMMA AdminServes ==
  ASSUME VisitType, AdminCore, ~overtaken', NEW c \in Requests, (c.kind = "categories" /\ ServeRead(c)) \/ AdminRegistryServe(c)
  PROVE  AdminCore'
<1>1. /\ AdminSrv(srv) /\ AdminAsk(c, st.focus) /\ (c.kind = "list" => c.arg = st.query)
      /\ srv.status \in [Items -> Conditions]
  BY DEF AdminCore, AdminType, AdminSrv
<1>2. "ok" \notin {Waiting, Failed}
  BY MarksAssumption DEF Marks
\* What is only read.
<1>3. ASSUME NEW a, Replies(c, a, srv), c.kind = "panels" => a = PanelsOf(srv), c.kind = "list" => a = ListPage(srv.status, c.arg),
             c.kind = "categories" => a = srv.categories, c.kind \in Writing => a = Failed, c.kind \notin {"preview", "publish"}
      PROVE  AdminCore'
  <2>1. AdminType'
    BY <1>1, <1>3, AdminServed, PanelsOfFacts DEF AdminCore
  <2>2. ListsOk'
    BY <1>3, ListsServed DEF AdminCore
  <2>3. CatsOk'
    BY <1>3, CatsServed DEF AdminCore
  <2>4. RowsTold'
    BY <1>3, RowsServed DEF AdminCore, Writing
  <2>5. PanelsTold'
    BY <1>3, PanelsServed DEF AdminCore, Writing
  <2>6. BulkOk'
    BY <1>3, BulkUnserved DEF AdminCore
  <2>7. QED BY <2>1, <2>2, <2>3, <2>4, <2>5, <2>6 DEF AdminCore
\* A change of an item, a suggestion or a report.
<1>4. ASSUME NEW r, Replies(c, "ok", r), AdminSrv(r), c.kind \in {"setStatus", "decide", "resolve"}, r.categories = srv.categories,
             r.suggestions \subseteq srv.suggestions, r.reports \subseteq srv.reports,
             c.kind = "decide" => c.arg.id \notin r.suggestions, c.kind = "resolve" => c.arg.id \notin r.reports,
             c.kind = "setStatus" => r.status = [srv.status EXCEPT ![c.arg.id] = c.arg.to]
      PROVE  AdminCore'
  <2>1. AdminType'
    BY <1>4, AdminServed DEF AdminCore
  <2>2. ListsOk'
    BY <1>2, <1>4, ListsServed DEF AdminCore, Writing
  <2>3. CatsOk'
    BY <1>4, CatsServed DEF AdminCore
  <2>4. c.kind # "setStatus" => st.focus # "rows"
    BY <1>1, <1>4 DEF AdminAsk
  <2>5. RowsTold'
    BY <1>2, <1>4, <2>4, RowsServed DEF AdminCore
  <2>6. PanelsTold'
    BY <1>4, PanelsServed DEF AdminCore
  <2>7. st.focus # "bulk"
    BY <1>1, <1>4 DEF AdminAsk
  <2>8. BulkOk'
    BY <1>4, <2>7, BulkUnserved DEF AdminCore
  <2>9. QED BY <2>1, <2>2, <2>3, <2>5, <2>6, <2>8 DEF AdminCore
<1>5. ASSUME NEW r, Replies(c, "ok", r), AdminSrv(r), c.kind \in Filing, r.status = srv.status, r.suggestions = srv.suggestions,
             r.reports = srv.reports
      PROVE  AdminCore'
  <2>1. c.kind \notin {"panels", "list", "preview", "publish", "setStatus", "decide", "resolve"}
    BY <1>5 DEF Filing
  <2>2. AdminType'
    BY <1>5, <2>1, AdminServed DEF AdminCore
  <2>3. ListsOk'
    BY <1>5, <2>1, ListsServed DEF AdminCore
  <2>4. CatsOk'
    BY <1>2, <1>5, CatsServed DEF AdminCore
  <2>5. RowsTold'
    BY <1>5, <2>1, RowsServed DEF AdminCore
  <2>6. PanelsTold'
    BY <1>5, <2>1, PanelsServed DEF AdminCore
  <2>7. BulkOk'
    BY <1>5, <2>1, BulkUnserved DEF AdminCore
  <2>8. QED BY <2>2, <2>3, <2>4, <2>5, <2>6, <2>7 DEF AdminCore
<1>6. CASE c.kind = "categories" /\ ServeRead(c)
  BY <1>3, <1>6 DEF ServeRead, Writing
<1>7. CASE c.kind = "list" /\ Replies(c, ListPage(srv.status, c.arg), srv)
  BY <1>3, <1>7 DEF Writing
<1>8. CASE c.kind = "panels" /\ Replies(c, PanelsOf(srv), srv)
  BY <1>3, <1>8 DEF Writing
<1>9. CASE c.kind \in {"setStatus", "decide", "deleteCategory"} /\ Replies(c, Failed, srv)
  BY <1>3, <1>9
<1>10. CASE c.kind = "setStatus" /\ Replies(c, "ok", [srv EXCEPT !.status[c.arg.id] = c.arg.to])
  <2> DEFINE t == [srv.status EXCEPT ![c.arg.id] = c.arg.to]
             r == [srv EXCEPT !.status[c.arg.id] = c.arg.to]
  <2>1. t \in [Items -> Conditions]
    BY <1>1, <1>10 DEF AdminAsk
  <2>2. /\ DOMAIN r = DOMAIN srv /\ r.status = t /\ r.suggestions = srv.suggestions
        /\ r.reports = srv.reports /\ r.categories = srv.categories
    BY <1>1 DEF AdminSrv
  <2>3. Replies(c, "ok", r) /\ t = [srv.status EXCEPT ![c.arg.id] = c.arg.to]
    BY <1>10
  <2> HIDE DEF t, r
  <2>4. AdminSrv(r)
    BY <1>1, <2>1, <2>2 DEF AdminSrv
  <2>5. QED BY <1>4, <1>10, <2>2, <2>3, <2>4
<1>11. ASSUME c.kind = "decide", NEW s \in {"published", "rejected"},
              Replies(c, "ok", [srv EXCEPT !.status[c.arg.id] = s, !.suggestions = srv.suggestions \ {c.arg.id}])
       PROVE  AdminCore'
  <2> DEFINE t == [srv.status EXCEPT ![c.arg.id] = s]
             u == srv.suggestions \ {c.arg.id}
             r == [srv EXCEPT !.status[c.arg.id] = s, !.suggestions = u]
  <2>1. t \in [Items -> Conditions] /\ u \subseteq srv.suggestions /\ u \subseteq Items /\ c.arg.id \notin u
    BY <1>1, <1>11 DEF AdminSrv, Conditions
  <2>2. Replies(c, "ok", r)
    BY <1>11
  <2> HIDE DEF u
  <2>3. /\ DOMAIN r = DOMAIN srv /\ r.status = t /\ r.suggestions = u
        /\ r.reports = srv.reports /\ r.categories = srv.categories
    BY <1>1 DEF AdminSrv
  <2> HIDE DEF t, r
  <2>4. AdminSrv(r)
    BY <1>1, <2>1, <2>3 DEF AdminSrv
  <2>5. QED BY <1>4, <1>11, <2>1, <2>2, <2>3, <2>4
<1>12. CASE c.kind = "resolve" /\ Replies(c, "ok", [srv EXCEPT !.reports = srv.reports \ {c.arg.id}])
  <2> DEFINE u == srv.reports \ {c.arg.id}
             r == [srv EXCEPT !.reports = u]
  <2>1. u \subseteq srv.reports /\ u \subseteq Items /\ c.arg.id \notin u
    BY <1>1 DEF AdminSrv
  <2>2. Replies(c, "ok", r)
    BY <1>12
  <2> HIDE DEF u
  <2>3. /\ DOMAIN r = DOMAIN srv /\ r.status = srv.status /\ r.suggestions = srv.suggestions
        /\ r.reports = u /\ r.categories = srv.categories
    BY <1>1 DEF AdminSrv
  <2> HIDE DEF r
  <2>4. AdminSrv(r)
    BY <1>1, <2>1, <2>3 DEF AdminSrv
  <2>5. QED BY <1>4, <1>12, <2>1, <2>2, <2>3, <2>4
<1>13. ASSUME c.kind \in Filing, NEW k \in SUBSET Categories, Replies(c, "ok", [srv EXCEPT !.categories = k])
       PROVE  AdminCore'
  <2> DEFINE r == [srv EXCEPT !.categories = k]
  <2>1. /\ DOMAIN r = DOMAIN srv /\ r.status = srv.status /\ r.suggestions = srv.suggestions
        /\ r.reports = srv.reports /\ r.categories = k
    BY <1>1 DEF AdminSrv
  <2>2. Replies(c, "ok", r)
    BY <1>13
  <2> HIDE DEF r
  <2>3. AdminSrv(r)
    BY <1>1, <2>1 DEF AdminSrv
  <2>4. QED BY <1>5, <1>13, <2>1, <2>2, <2>3
<1>14. CASE c.kind = "saveCategory" /\ Replies(c, "ok", [srv EXCEPT !.categories = srv.categories \cup {c.arg}])
  <2>1. c.kind \in Filing /\ srv.categories \cup {c.arg} \in SUBSET Categories
    BY <1>1, <1>14 DEF Filing, AdminAsk, AdminSrv, Categories, InCategory
  <2>2. QED BY <1>13, <1>14, <2>1
<1>15. CASE c.kind = "deleteCategory" /\ Replies(c, "ok", [srv EXCEPT !.categories = srv.categories \ {c.arg}])
  <2>1. c.kind \in Filing /\ srv.categories \ {c.arg} \in SUBSET Categories
    BY <1>1, <1>15 DEF Filing, AdminSrv
  <2>2. QED BY <1>13, <1>15, <2>1
<1>16. CASE c.kind = "preview" /\ Replies(c, BulkPlan(srv.status, c.arg), srv)
  <2> DEFINE a == BulkPlan(srv.status, c.arg)
  <2>1. a \in BulkPlans /\ a \notin Marks /\ c.kind \notin {"panels", "list", "categories", "setStatus", "decide", "resolve"}
    BY <1>1, <1>16, BulkPlanFacts DEF AdminAsk
  <2>2. AdminType'
    BY <1>1, <1>16, <2>1, AdminServed DEF AdminCore
  <2>3. ListsOk'
    BY <1>16, <2>1, ListsServed DEF AdminCore
  <2>4. CatsOk'
    BY <1>16, <2>1, CatsServed DEF AdminCore
  <2>5. RowsTold'
    BY <1>16, <2>1, RowsServed DEF AdminCore
  <2>6. PanelsTold'
    BY <1>16, <2>1, PanelsServed DEF AdminCore
  <2>7. BulkOk'
    <3>1. /\ st' = st /\ srv' = srv /\ Requests' = Requests /\ calls'[c] = a
          /\ \A o \in Requests \ {c} : calls'[o] = calls[o]
      BY <1>16, RepliesFacts
    <3> HIDE DEF a
    <3>2. Barred' = Barred /\ c \in Barred
      BY <1>16, <3>1 DEF Barred
    <3>3. \A o \in Barred : o = c
      BY <3>2 DEF AdminCore, BulkOk
    <3>4. st.bulk.open /\ st.bulk.phase = "previewing" /\ (st.focus # "bulk" => st.bulk = NoBulk)
      BY <1>16, <3>2 DEF AdminCore, BulkOk
    <3>5. calls'[c] \in {Waiting, BulkPlan(srv.status, c.arg)}
      BY <3>1 DEF a
    <3>6. QED BY <1>16, <3>1, <3>2, <3>3, <3>4, <3>5 DEF BulkOk
  <2>8. QED BY <2>2, <2>3, <2>4, <2>5, <2>6, <2>7 DEF AdminCore
<1>17. CASE c.kind = "publish" /\ Replies(c, BulkPlan(srv.status, c.arg), [srv EXCEPT !.status = Applied(srv.status, BulkPlan(srv.status, c.arg))])
  <2> DEFINE a == BulkPlan(srv.status, c.arg)
             t == Applied(srv.status, a)
             r == [srv EXCEPT !.status = t]
  <2>1. /\ a \in BulkPlans /\ a \notin Marks /\ c.kind \notin {"panels", "list", "categories", "setStatus", "decide", "resolve"}
        /\ c.kind \in Writing /\ st.focus = "bulk"
    BY <1>1, <1>17, BulkPlanFacts DEF AdminAsk, Writing
  <2>2. t \in [Items -> Conditions] /\ Done(a, t)
    BY <1>1, <1>17, AppliedFacts DEF AdminAsk
  <2>3. Replies(c, a, r) /\ a = BulkPlan(srv.status, c.arg)
    BY <1>17
  <2> HIDE DEF a, t
  <2>4. /\ DOMAIN r = DOMAIN srv /\ r.status = t /\ r.suggestions = srv.suggestions
        /\ r.reports = srv.reports /\ r.categories = srv.categories
    BY <1>1 DEF AdminSrv
  <2> HIDE DEF r
  <2>5. AdminSrv(r)
    BY <1>1, <2>2, <2>4 DEF AdminSrv
  <2>6. AdminType'
    BY <2>1, <2>3, <2>5, AdminServed DEF AdminCore
  <2>7. ListsOk'
    BY <2>1, <2>3, ListsServed DEF AdminCore, Marks
  <2>8. CatsOk'
    BY <2>1, <2>3, <2>4, CatsServed DEF AdminCore
  <2>9. RowsTold'
    BY <2>1, <2>3, RowsServed DEF AdminCore
  <2>10. PanelsTold'
    BY <2>1, <2>3, <2>4, PanelsServed DEF AdminCore
  <2>11. BulkOk'
    <3>1. /\ st' = st /\ srv' = r /\ Requests' = Requests /\ calls'[c] = a /\ calls[c] = Waiting
          /\ \A o \in Requests \ {c} : calls'[o] = calls[o]
      BY <2>3, RepliesFacts
    <3>2. Barred' = Barred /\ c \in Barred
      BY <1>17, <3>1 DEF Barred
    <3>3. \A o \in Barred : o = c
      BY <3>2 DEF AdminCore, BulkOk
    <3>4. st.bulk.open /\ st.bulk.phase = "publishing" /\ st.bulk.confirmed \in BulkPlans
      BY <1>17, <3>2 DEF AdminCore, BulkOk
    <3>5. st.bulk.confirmed \notin Marks
      BY <3>4, AdminAssumption
    <3>6. st.bulk.confirmed = a
      BY <1>17, <2>3, <3>1, <3>2, <3>5 DEF AdminCore, BulkOk, Marks
    <3>7. Done(st.bulk.confirmed, r.status)
      BY <2>2, <2>4, <3>6
    <3>8. QED BY <1>17, <2>1, <3>1, <3>2, <3>3, <3>4, <3>6, <3>7 DEF BulkOk
  <2>12. QED BY <2>6, <2>7, <2>8, <2>9, <2>10, <2>11 DEF AdminCore
<1>18. CASE AdminRegistryServe(c)
  <2>1. c.kind = "decide" => (IF c.arg.to = "approved" THEN "published" ELSE "rejected") \in {"published", "rejected"}
    OBVIOUS
  <2>2. QED BY <1>7, <1>8, <1>9, <1>10, <1>11, <1>12, <1>14, <1>15, <1>16, <1>17, <1>18, <2>1 DEF AdminRegistryServe, Applied
<1>19. QED BY <1>6, <1>18

-----------------------------------------------------------------------------
(* Steps of the answers *)

LEMMA RenewFacts ==
  /\ \A r \in Renew : /\ r.kind \in {"list", "panels"} /\ AdminAsk(r, st.focus)
                      /\ r.kind = "list" => r.arg = st.query
                      /\ r.kind = "panels" => r.arg = None
  /\ \E r \in Renew : r.kind = "list"
  /\ \E r \in Renew : r.kind = "panels"
<1>1. Renew = {Ask("list", st.query), Ask("panels", None)}
  BY DEF Renew, ListAndPanels
<1>2. /\ Ask("list", st.query).kind = "list" /\ Ask("list", st.query).arg = st.query
      /\ Ask("panels", None).kind = "panels" /\ Ask("panels", None).arg = None
  BY DEF Ask
<1>3. QED BY <1>1, <1>2 DEF AdminAsk, Writing, Filing

\* The answers of a row come in their order.
LEMMA RowsTaken ==
  ASSUME VisitType, RowsTold, ~overtaken', NEW c \in Requests, NEW s, NEW dropped, NEW new, Takes(c, s, dropped, new),
         Answer(c) # Waiting, s.focus = st.focus,
         \A o \in dropped : o.kind # "setStatus", \A r \in new : r.kind # "setStatus",
         st.focus = "rows" => /\ c.kind = "setStatus" /\ s.outcome.about = c.arg
                              /\ s.outcome.tone = "success" => Answered(c)
  PROVE  RowsTold'
<1> DEFINE kept == (Requests \ {c}) \ dropped
<1>1. /\ Sends(kept, new) /\ st' = s /\ srv' = srv
      /\ \A o \in Requests \ dropped : o.kind = c.kind => ~(o.id < c.id)
  BY TakesFacts
<1>2. Requests' = kept \cup New(new) /\ \A o \in kept : calls'[o] = calls[o]
  BY <1>1 DEF Sends
<1> SUFFICES ASSUME st.focus = "rows" PROVE RowsTold'
  BY <1>1 DEF RowsTold
<1>3. Shifts' = Shifts \ {c} /\ (\A o \in Shifts \ {c} : calls'[o] = calls[o]) /\ c \in Shifts
  BY <1>2, NewFacts DEF Shifts
<1>4. \A d \in Shifts \ {c} : Answered(d)' <=> Answered(d)
  BY <1>3 DEF Answered, Answer
<1>5. ASSUME NEW d \in Shifts PROVE ~(d.id < c.id)
  BY <1>1, <1>3 DEF Shifts
<1>6. Listed(calls', "setStatus")
  <2>1. kept \in SUBSET Requests
    OBVIOUS
  <2> HIDE DEF kept
  <2>2. \A q, r \in new : q.kind = "setStatus" /\ r.kind = "setStatus" => q.arg = r.arg
    OBVIOUS
  <2>3. QED BY <1>1, <2>1, <2>2, SendsListed DEF RowsTold
<1>7. \A d, e \in Shifts' : d.id < e.id /\ calls'[d] = Waiting => calls'[e] = Waiting
  BY <1>3 DEF RowsTold
<1>8. ASSUME NEW d \in Shifts', Answered(d)'
      PROVE  srv.status[d.arg.id] = d.arg.to \/ \E e \in Shifts' : d.id < e.id /\ Answered(e)' /\ e.arg.id = d.arg.id
  <2>1. d \in Shifts /\ Answered(d)
    BY <1>3, <1>4, <1>8
  <2>2. CASE srv.status[d.arg.id] = d.arg.to
    BY <2>2
  <2>3. ASSUME NEW e \in Shifts, d.id < e.id, Answered(e), e.arg.id = d.arg.id
        PROVE  e \in Shifts' /\ Answered(e)'
    BY <1>3, <1>4, <1>5, <2>1, <2>3
  <2>4. QED BY <2>1, <2>2, <2>3 DEF RowsTold
<1>9. ASSUME s.outcome.tone = "success"
      PROVE  \/ srv.status[s.outcome.about.id] = s.outcome.about.to
             \/ \E d \in Shifts' : Answered(d)' /\ d.arg.id = s.outcome.about.id
  <2>1. Answered(c) /\ s.outcome.about = c.arg
    BY <1>9
  <2>2. c.id \in Nat
    BY DEF VisitType
  <2>3. ASSUME NEW e \in Shifts, c.id < e.id, Answered(e), e.arg.id = c.arg.id
        PROVE  e \in Shifts' /\ Answered(e)'
    BY <1>3, <1>4, <2>2, <2>3
  <2>4. QED BY <1>3, <2>1, <2>3 DEF RowsTold
<1>10. QED BY <1>1, <1>6, <1>7, <1>8, <1>9 DEF RowsTold

LEMMA AdminActDone ==
  ASSUME VisitType, AdminCore, ~overtaken', NEW c \in Requests, Answer(c) # Waiting, ActDone(c)
  PROVE  AdminCore'
<1> DEFINE tone == IF Threw(c) THEN "error" ELSE "success"
           said == [panel |-> c.arg.panel, tone |-> tone, about |-> c.arg]
           s    == [st EXCEPT !.busy = None, !.outcome = said]
<1>1. c.kind \in {"setStatus", "decide", "resolve"} /\ IF Threw(c) THEN Takes(c, s, {}, {}) ELSE Takes(c, s, Renewed, Renew)
  BY DEF ActDone
<1>2. said.panel = c.arg.panel /\ said.tone = tone /\ said.about = c.arg
  OBVIOUS
<1>3. tone = "success" => Answered(c)
  BY DEF Threw, Answered
<1> HIDE DEF tone, said
<1>4. AdminState(st) /\ AdminAsk(c, st.focus)
  BY DEF AdminCore, AdminType
<1>5. /\ DOMAIN s = DOMAIN st /\ s.focus = st.focus /\ s.query = st.query /\ s.rows = st.rows /\ s.shown = st.shown
      /\ s.panels = st.panels /\ s.categories = st.categories /\ s.bulk = st.bulk /\ s.outcome = said
  BY <1>4 DEF AdminState
<1> HIDE DEF s
<1>6. AdminState(s)
  BY <1>1, <1>2, <1>4, <1>5 DEF AdminState, AdminAsk
<1>7. ASSUME NEW dropped, NEW new, Takes(c, s, dropped, new),
             \/ dropped = {} /\ new = {} /\ Threw(c)
             \/ dropped = Renewed /\ new = Renew
      PROVE  AdminCore'
  <2> DEFINE kept == (Requests \ {c}) \ dropped
  <2>1. Sends(kept, new) /\ st' = s /\ srv' = srv /\ kept \in SUBSET Requests
    BY <1>7, TakesFacts
  <2>2. /\ \A o \in dropped : o.kind \in {"list", "panels"}
        /\ \A r \in new : r.kind \in {"list", "panels"} /\ AdminAsk(r, st.focus) /\ (r.kind = "list" => r.arg = st.query)
    BY <1>7, RenewFacts DEF Renewed, Asking
  <2>3. AdminType'
    BY <1>5, <1>6, <2>1, <2>2, AdminSent DEF AdminCore, AdminType
  <2>4. ListsOk'
    <3>1. CASE dropped = {} /\ new = {} /\ Threw(c)
      <4>1. \A o \in Requests : o \notin kept => o = c
        BY <3>1
      <4>2. ~Answered(c)
        BY <3>1 DEF Threw, Answered
      <4> HIDE DEF kept
      <4>3. QED BY <1>1, <1>5, <2>1, <3>1, <4>1, <4>2, ListsSame DEF AdminCore
    <3>2. CASE dropped = Renewed /\ new = Renew
      <4>1. \A o \in kept : o.kind \notin {"list", "panels"}
        BY <3>2 DEF Renewed, Asking
      <4> HIDE DEF kept
      <4>2. QED BY <2>1, <3>2, <4>1, RenewFacts, ListsRenewed
    <3>3. QED BY <1>7, <3>1, <3>2
  <2>5. CatsOk'
    <3>1. \A o \in Requests : o \notin kept => o.kind # "categories" /\ o.kind \notin Filing
      BY <1>1, <2>2 DEF Filing
    <3> HIDE DEF kept
    <3>2. QED BY <1>5, <2>1, <2>2, <3>1, CatsSame DEF AdminCore
  <2>6. RowsTold'
    <3>1. st.focus = "rows" => c.kind = "setStatus"
      BY <1>1, <1>4 DEF AdminAsk
    <3>2. QED BY <1>2, <1>3, <1>5, <1>7, <2>2, <3>1, RowsTaken DEF AdminCore
  <2>7. PanelsTold'
    <3>1. Requests' = kept \cup New(new) /\ (\A o \in kept : calls'[o] = calls[o]) /\ \A o \in New(new) : calls'[o] = Waiting
      BY <2>1 DEF Sends
    <3>2. \A o \in Requests' : Answered(o)' => o \in Requests /\ Answered(o)
      BY <3>1 DEF Answered, Answer
    <3>3. tone = "success" => /\ said.panel = "suggestions" => c.arg.id \notin srv.suggestions
                              /\ said.panel = "reports" => c.arg.id \notin srv.reports
      BY <1>1, <1>2, <1>3, <1>4 DEF AdminAsk, AdminCore, PanelsTold
    <3>4. QED BY <1>2, <1>5, <2>1, <3>2, <3>3 DEF PanelsTold, AdminCore
  <2>8. BulkOk'
    BY <1>5, <2>1, <2>2, BulkSame DEF AdminCore
  <2>9. QED BY <2>3, <2>4, <2>5, <2>6, <2>7, <2>8 DEF AdminCore
<1>8. QED BY <1>1, <1>7

\* The list, a panel or the categories.
LEMMA AdminListArrived ==
  ASSUME VisitType, AdminCore, NEW c \in Requests, Answer(c) # Waiting, AdminListArrives(c)
  PROVE  AdminCore'
<1>1. AdminState(st) /\ AdminSrv(srv)
  BY DEF AdminCore, AdminType
<1>2. ASSUME NEW s, Takes(c, s, {}, {}), c.kind \in {"list", "panels", "categories"},
             AdminState(s), s.focus = st.focus, s.query = st.query, s.bulk = st.bulk, s.outcome = st.outcome,
             IF c.kind = "list" THEN s.shown = st.query /\ (Answer(c) \notin Marks => s.rows = Answer(c))
                                ELSE s.rows = st.rows /\ s.shown = st.shown,
             IF c.kind = "panels" THEN s.panels = Answer(c) ELSE s.panels = st.panels,
             IF c.kind = "categories" THEN Answer(c) \notin Marks => s.categories = Answer(c) ELSE s.categories = st.categories
      PROVE  AdminCore'
  <2> DEFINE kept == Requests \ {c}
  <2>1. (Requests \ {c}) \ {} = kept /\ kept \in SUBSET Requests /\ \A r \in {} : r.kind \notin {"list", "panels", "categories"}
    OBVIOUS
  <2>2. Sends(kept, {}) /\ st' = s /\ srv' = srv
    BY <1>2, <2>1, TakesFacts
  <2>3. \A o \in Requests : o \notin kept => o.kind \in {"list", "panels", "categories"}
    BY <1>2
  <2>4. ASSUME NEW k, NEW v, Alone(calls, k, v)
        PROVE  /\ Alone(calls', k, v)
               /\ c.kind # k => (Sought(calls', k) <=> Sought(calls, k))
               /\ c.kind = k => Answer(c) = v
    <3> DEFINE none == {}
    <3>1. Takes(c, s, {}, none) /\ \A r \in none : r.kind # k
      BY <1>2
    <3> HIDE DEF none
    <3>2. QED BY <2>4, <3>1, TakesAlone
  <2>5. Requests' = kept /\ \A o \in kept : calls'[o] = calls[o]
    BY <2>2, NumberedNone DEF Sends, New
  <2>6. AdminType'
    BY <1>2, <2>2, <2>5 DEF AdminCore, AdminType
  <2>7. ListsOk'
    <3>1. ListsChanged => ListsChanged'
      BY <1>2, <2>5 DEF ListsChanged, Writing, Answered, Answer
    <3>2. PanelsOf(srv) \notin Marks /\ ListPage(srv.status, st.query) \notin Marks
      BY <1>1, PanelsOfFacts, ListPageFacts DEF AdminSrv
    <3>3. ListsFresh => ListsFresh'
      BY <1>2, <2>2, <2>4, <3>2 DEF ListsFresh
    <3>4. QED BY <3>1, <3>3 DEF AdminCore, ListsOk
  <2>8. CatsOk'
    <3>1. CatsChanged => CatsChanged'
      BY <1>2, <2>5 DEF CatsChanged, Filing, Answered, Answer
    <3>2. srv.categories \notin Marks
      BY <1>1, AdminAssumption DEF AdminSrv
    <3>3. CatsFresh => CatsFresh'
      BY <1>2, <2>2, <2>4, <3>2 DEF CatsFresh
    <3>4. QED BY <3>1, <3>3 DEF AdminCore, CatsOk
  <2>9. RowsTold'
    BY <1>2, <2>1, <2>2, <2>3, RowsSent DEF AdminCore
  <2>10. PanelsTold'
    BY <1>2, <2>1, <2>2, PanelsSent DEF AdminCore
  <2>11. BulkOk'
    BY <1>2, <2>1, <2>2, BulkSame DEF AdminCore
  <2>12. QED BY <2>6, <2>7, <2>8, <2>9, <2>10, <2>11 DEF AdminCore
<1>3. CASE c.kind = "list" /\ Takes(c, [st EXCEPT !.rows = IF Threw(c) THEN <<>> ELSE Answer(c), !.shown = c.arg, !.loading = FALSE], {}, {})
  <2> DEFINE x == IF Threw(c) THEN <<>> ELSE Answer(c)
             s == [st EXCEPT !.rows = x, !.shown = c.arg, !.loading = FALSE]
  <2>1. /\ AdminState(s) /\ s.focus = st.focus /\ s.query = st.query /\ s.bulk = st.bulk /\ s.outcome = st.outcome
        /\ s.shown = c.arg /\ s.rows = x /\ s.panels = st.panels /\ s.categories = st.categories
    BY <1>1 DEF AdminState
  <2>2. c.arg = st.query /\ (Answer(c) \notin Marks => x = Answer(c)) /\ Takes(c, s, {}, {})
    BY <1>3 DEF AdminCore, AdminType, Threw, Marks
  <2> HIDE DEF s, x
  <2>3. QED BY <1>2, <1>3, <2>1, <2>2
<1>4. CASE c.kind = "panels" /\ Takes(c, [st EXCEPT !.panels = IF Threw(c) THEN NoPanels ELSE Answer(c)], {}, {})
  <2> DEFINE x == IF Threw(c) THEN NoPanels ELSE Answer(c)
             s == [st EXCEPT !.panels = x]
  <2>1. Answer(c) \in PanelRecords
    BY <1>4 DEF AdminCore, AdminType, Answer
  <2>2. x = Answer(c) /\ Takes(c, s, {}, {})
    BY <1>4, <2>1, AdminAssumption DEF Threw, Marks
  <2> HIDE DEF x
  <2>3. /\ AdminState(s) /\ s.focus = st.focus /\ s.query = st.query /\ s.bulk = st.bulk /\ s.outcome = st.outcome
        /\ s.shown = st.shown /\ s.rows = st.rows /\ s.panels = x /\ s.categories = st.categories
    BY <1>1, <2>1, <2>2 DEF AdminState
  <2> HIDE DEF s
  <2>4. QED BY <1>2, <1>4, <2>2, <2>3
<1>5. CASE c.kind = "categories" /\ Takes(c, [st EXCEPT !.categories = IF Threw(c) THEN NoData ELSE Answer(c)], {}, {})
  <2> DEFINE x == IF Threw(c) THEN NoData ELSE Answer(c)
             s == [st EXCEPT !.categories = x]
  <2>1. /\ AdminState(s) /\ s.focus = st.focus /\ s.query = st.query /\ s.bulk = st.bulk /\ s.outcome = st.outcome
        /\ s.shown = st.shown /\ s.rows = st.rows /\ s.panels = st.panels /\ s.categories = x
    BY <1>1 DEF AdminState
  <2>2. (Answer(c) \notin Marks => x = Answer(c)) /\ Takes(c, s, {}, {})
    BY <1>5 DEF Threw, Marks
  <2> HIDE DEF s, x
  <2>3. QED BY <1>2, <1>5, <2>1, <2>2
<1>6. QED BY <1>3, <1>4, <1>5 DEF AdminListArrives

\* What the dialog of the bar and the categories leave to the others.
LEMMA AdminOther ==
  ASSUME VisitType, AdminCore, NEW c \in Requests, c.kind \in {"preview", "publish"} \cup Filing,
         NEW s, NEW dropped, NEW new, Takes(c, s, dropped, new), AdminState(s), s.focus = st.focus, s.query = st.query,
         s.rows = st.rows, s.shown = st.shown, s.panels = st.panels, s.categories = st.categories, s.outcome = st.outcome,
         \/ dropped = {} /\ new = {} /\ (c.kind = "preview" \/ ~Answered(c))
         \/ dropped = Renewed /\ new = Renew /\ c.kind \notin Filing
         \/ dropped = Renewed \cup Asking({"categories"}) /\ new = Renew \cup Load({"categories"})
  PROVE  /\ AdminType' /\ ListsOk' /\ CatsOk' /\ RowsTold' /\ PanelsTold'
         /\ s.bulk = st.bulk => BulkOk'
         /\ st' = s /\ srv' = srv /\ Barred' = Barred \ {c} /\ \A o \in Barred' : calls'[o] = calls[o]
<1> DEFINE kept == (Requests \ {c}) \ dropped
<1>1. Sends(kept, new) /\ st' = s /\ srv' = srv /\ kept \in SUBSET Requests
  BY TakesFacts
<1>2. (\A r \in Load({"categories"}) : r.kind = "categories" /\ r.arg = None) /\ \E r \in Load({"categories"}) : r.kind = "categories"
  BY LoadFacts
<1>3. /\ \A o \in dropped : o.kind \in {"list", "panels", "categories"}
      /\ \A r \in new : /\ r.kind \in {"list", "panels", "categories"}
                        /\ r.kind = "list" => r.arg = st.query
                        /\ r.kind \in {"panels", "categories"} => r.arg = None
  BY <1>2, RenewFacts DEF Renewed, Asking
<1>4. \A r \in new : AdminAsk(r, st.focus)
  BY <1>3 DEF AdminAsk, Writing, Filing
<1>5. \A q, r \in new : q.kind = r.kind => q.arg = r.arg
  BY <1>3
<1>6. AdminType'
  BY <1>1, <1>3, <1>4, AdminSent DEF AdminCore, AdminType
<1>7. ListsOk'
  <2>1. CASE dropped = {} /\ new = {} /\ (c.kind = "preview" \/ ~Answered(c))
    <3>1. \A o \in Requests : o \notin kept => o = c
      BY <2>1
    <3>2. c.kind \notin {"list", "panels"} /\ ~(c.kind \in Writing /\ Answered(c))
      BY <2>1 DEF Filing, Writing
    <3> HIDE DEF kept
    <3>3. QED BY <1>1, <2>1, <3>1, <3>2, ListsSame DEF AdminCore
  <2>2. CASE \/ dropped = Renewed /\ new = Renew
             \/ dropped = Renewed \cup Asking({"categories"}) /\ new = Renew \cup Load({"categories"})
    <3>1. \A o \in kept : o.kind \notin {"list", "panels"}
      BY <2>2 DEF Renewed, Asking
    <3>2. (\E r \in new : r.kind = "list") /\ \E r \in new : r.kind = "panels"
      BY <2>2, RenewFacts
    <3> HIDE DEF kept
    <3>3. QED BY <1>1, <1>5, <3>1, <3>2, ListsRenewed
  <2>3. QED BY <2>1, <2>2
<1>8. CatsOk'
  <2>1. CASE \/ dropped = {} /\ new = {} /\ (c.kind = "preview" \/ ~Answered(c))
             \/ dropped = Renewed /\ new = Renew /\ c.kind \notin Filing
    <3>1. \A r \in new : r.kind # "categories"
      BY <2>1, RenewFacts
    <3>2. \A o \in Requests : o \notin kept => o = c \/ o.kind \in {"list", "panels"}
      BY <2>1 DEF Renewed, Asking
    <3>3. c.kind # "categories" /\ ~(c.kind \in Filing /\ Answered(c))
      BY <2>1 DEF Filing
    <3> HIDE DEF kept
    <3>4. \A o \in Requests : o \notin kept => o.kind # "categories" /\ ~(o.kind \in Filing /\ Answered(o))
      BY <3>2, <3>3 DEF Filing
    <3>5. QED BY <1>1, <3>1, <3>4, CatsSame DEF AdminCore
  <2>2. CASE dropped = Renewed \cup Asking({"categories"}) /\ new = Renew \cup Load({"categories"})
    <3>1. \A o \in kept : o.kind # "categories"
      BY <2>2 DEF Asking
    <3>2. \E r \in new : r.kind = "categories"
      BY <1>2, <2>2
    <3> HIDE DEF kept
    <3>3. QED BY <1>1, <1>5, <3>1, <3>2, CatsRenewed
  <2>3. QED BY <2>1, <2>2
<1>9. \A o \in Requests : o \notin kept => o = c \/ o.kind \in {"list", "panels", "categories"}
  BY <1>3
<1>10. c.kind # "setStatus"
  BY DEF Filing
<1>11. Requests' = kept \cup New(new) /\ \A o \in kept : calls'[o] = calls[o]
  BY <1>1 DEF Sends
<1>12. c \notin kept
  OBVIOUS
<1> HIDE DEF kept
<1>13. RowsTold'
  BY <1>1, <1>3, <1>9, <1>10, RowsSent DEF AdminCore
<1>14. PanelsTold'
  BY <1>1, PanelsSent DEF AdminCore
<1>15. ASSUME s.bulk = st.bulk PROVE BulkOk'
  BY <1>1, <1>3, <1>15, BulkSame DEF AdminCore
<1>16. \A o \in New(new) : o.kind \notin {"preview", "publish"}
  BY <1>3, NewFacts
<1>17. Barred' = Barred \ {c} /\ \A o \in Barred' : calls'[o] = calls[o]
  BY <1>1, <1>9, <1>11, <1>12, <1>16 DEF Barred
<1>18. QED BY <1>1, <1>6, <1>7, <1>8, <1>13, <1>14, <1>15, <1>17

LEMMA AdminBulkArrived ==
  ASSUME VisitType, AdminCore, NEW c \in Requests, Answer(c) # Waiting, BulkArrives(c)
  PROVE  AdminCore'
<1>1. AdminState(st) /\ srv.status \in [Items -> Conditions] /\ AdminAsk(c, st.focus)
  BY DEF AdminCore, AdminType, AdminSrv
<1>2. c \in Barred /\ c.kind \in {"preview", "publish"}
  BY DEF BulkArrives, Barred
<1>3. Barred \ {c} = {} /\ (st.focus # "bulk" => st.bulk = NoBulk) /\ st.focus = "bulk" /\ c.arg \in Bars
  BY <1>1, <1>2 DEF AdminCore, BulkOk, AdminAsk
<1>4. CASE c.kind = "preview"
  <2> DEFINE s == [st EXCEPT !.bulk.phase = "preview", !.bulk.plan = Answer(c)]
  <2>1. Answer(c) = BulkPlan(srv.status, c.arg)
    BY <1>2, <1>4 DEF AdminCore, BulkOk, Answer
  <2>2. ~Threw(c) /\ Answer(c).bar = c.arg
    BY <1>1, <1>3, <2>1, BulkPlanFacts DEF Threw, Marks
  <2>3. Takes(c, s, {}, {})
    BY <1>4, <2>2 DEF BulkArrives
  <2>4. /\ DOMAIN s = DOMAIN st /\ s.focus = st.focus /\ s.query = st.query /\ s.rows = st.rows /\ s.shown = st.shown
        /\ s.panels = st.panels /\ s.categories = st.categories /\ s.outcome = st.outcome
    BY <1>1 DEF AdminState
  <2>5. DOMAIN s.bulk = DOMAIN st.bulk /\ s.bulk.phase = "preview" /\ s.bulk.plan = Answer(c)
    BY <1>1 DEF AdminState
  <2> HIDE DEF s
  <2>6. AdminState(s)
    BY <1>1, <2>4, <2>5 DEF AdminState
  <2>7. /\ AdminType' /\ ListsOk' /\ CatsOk' /\ RowsTold' /\ PanelsTold'
        /\ st' = s /\ srv' = srv /\ Barred' = Barred \ {c}
    BY <1>2, <1>4, <2>3, <2>4, <2>6, AdminOther
  <2>8. BulkOk'
    BY <1>3, <2>1, <2>2, <2>4, <2>5, <2>7 DEF BulkOk
  <2>9. QED BY <2>7, <2>8 DEF AdminCore
<1>5. CASE c.kind = "publish"
  <2> DEFINE s == [st EXCEPT !.bulk.phase = "done", !.bulk.plan = Answer(c)]
  <2>1. Answer(c) = st.bulk.confirmed /\ Done(st.bulk.confirmed, srv.status) /\ st.bulk.confirmed \in BulkPlans
    BY <1>2, <1>5 DEF AdminCore, BulkOk, Answer
  <2>2. ~Threw(c)
    BY <2>1, AdminAssumption DEF Threw, Marks
  <2>3. Takes(c, s, Renewed, Renew)
    BY <1>5, <2>2 DEF BulkArrives
  <2>4. /\ DOMAIN s = DOMAIN st /\ s.focus = st.focus /\ s.query = st.query /\ s.rows = st.rows /\ s.shown = st.shown
        /\ s.panels = st.panels /\ s.categories = st.categories /\ s.outcome = st.outcome
    BY <1>1 DEF AdminState
  <2>5. DOMAIN s.bulk = DOMAIN st.bulk /\ s.bulk.phase = "done" /\ s.bulk.plan = Answer(c) /\ s.bulk.confirmed = st.bulk.confirmed
    BY <1>1 DEF AdminState
  <2> HIDE DEF s
  <2>6. AdminState(s) /\ c.kind \notin Filing
    BY <1>1, <1>5, <2>4, <2>5 DEF AdminState, Filing
  <2>7. /\ AdminType' /\ ListsOk' /\ CatsOk' /\ RowsTold' /\ PanelsTold'
        /\ st' = s /\ srv' = srv /\ Barred' = Barred \ {c}
    BY <1>2, <2>3, <2>4, <2>6, AdminOther
  <2>8. BulkOk'
    BY <1>3, <2>1, <2>4, <2>5, <2>7 DEF BulkOk
  <2>9. QED BY <2>7, <2>8 DEF AdminCore
<1>6. QED BY <1>2, <1>4, <1>5

LEMMA AdminCategoryDone ==
  ASSUME VisitType, AdminCore, NEW c \in Requests, Answer(c) # Waiting, CategoryDone(c)
  PROVE  AdminCore'
<1> DEFINE n == IF c.kind = "saveCategory" THEN FALSE ELSE st.naming
           s == [st EXCEPT !.saving = None, !.naming = n]
<1>1. AdminState(st)
  BY DEF AdminCore, AdminType
<1>2. /\ c.kind \in Filing
      /\ IF Threw(c) THEN Takes(c, s, {}, {})
         ELSE Takes(c, s, Renewed \cup Asking({"categories"}), Renew \cup Load({"categories"}))
  BY DEF CategoryDone, Filing
<1>3. /\ AdminState(s) /\ s.focus = st.focus /\ s.query = st.query /\ s.rows = st.rows /\ s.shown = st.shown
      /\ s.panels = st.panels /\ s.categories = st.categories /\ s.outcome = st.outcome /\ s.bulk = st.bulk
  BY <1>1 DEF AdminState
<1> HIDE DEF s
<1>4. Threw(c) => ~Answered(c)
  BY DEF Threw, Answered
<1>5. QED BY <1>2, <1>3, <1>4, AdminOther DEF AdminCore

\* Every step of a calm visit keeps it so.
LEMMA AdminCalm ==
  ASSUME page = "adminRegistry", VisitType, AdminCore, Inside, ~overtaken'
  PROVE  AdminCore'
<1>1. CASE AdminRegistryClick
  BY <1>1, AdminRowsClick, AdminPanelsClick, AdminBulkClick, AdminCategoriesClick DEF AdminRegistryClick
<1>2. ASSUME NEW c \in Requests, Answer(c) # Waiting, AdminRegistryArrive(c)
      PROVE  AdminCore'
  BY <1>2, AdminListArrived, AdminActDone, AdminBulkArrived, AdminCategoryDone DEF AdminRegistryArrive
<1>3. QED BY <1>1, <1>2, AdminServes, AdminSteps DEF AdminCore

\* It is so when the page is mounted.
LEMMA AdminStart == AdminRegistryInit => page = "adminRegistry" /\ AdminCore
<1> SUFFICES ASSUME AdminRegistryInit PROVE page = "adminRegistry" /\ AdminCore
  OBVIOUS
<1> DEFINE state(focus) ==
             [rows |-> <<>>, query |-> NoQuery, shown |-> None, loading |-> TRUE, panels |-> None,
              busy |-> None, outcome |-> None, bulk |-> NoBulk, focus |-> focus,
              categories |-> NoData, naming |-> FALSE, saving |-> None]
           new == ListAndPanels(NoQuery) \cup Load({"categories"})
           records == {[status |-> t, suggestions |-> With(t, "review"), reports |-> {"i1"}, categories |-> {"c1"}] : t \in Statuses}
<1>1. PICK focus \in {"rows", "panels", "bulk", "categories"} : Mounted("adminRegistry", state(focus), new, records)
  BY DEF AdminRegistryInit
<1> DEFINE s == state(focus)
<1>2. AdminState(s) /\ s.outcome = None /\ s.query = NoQuery /\ s.bulk = NoBulk
  BY DEF AdminState, NoBulk
<1>3. ASSUME NEW t \in Statuses
      PROVE  t \in [Items -> Conditions]
  BY DEF Statuses, Items, Conditions
<1>4. \A r \in records : AdminSrv(r)
  BY <1>3, WithFacts DEF AdminSrv, Items, Categories, InCategory
<1>5. /\ \A r \in new : /\ r.kind \in {"list", "panels", "categories"} /\ AdminAsk(r, focus)
                        /\ r.kind = "list" => r.arg = NoQuery
                        /\ r.kind \in {"panels", "categories"} => r.arg = None
      /\ \A k \in {"list", "panels", "categories"} : \E r \in new : r.kind = k
  <2>1. new = {Ask("list", NoQuery), Ask("panels", None), Ask("categories", None)}
    BY DEF ListAndPanels, Load
  <2> HIDE DEF new
  <2>2. \A k, a : Ask(k, a).kind = k /\ Ask(k, a).arg = a
    BY DEF Ask
  <2>3. QED BY <2>1, <2>2 DEF AdminAsk, Writing, Filing
<1>6. Mounted("adminRegistry", s, new, records)
  BY <1>1
<1>7. s.focus = focus
  OBVIOUS
<1> HIDE DEF s, new, records
<1>8. /\ page = "adminRegistry" /\ st = s /\ srv \in records
      /\ \A o \in Requests : calls[o] = Waiting /\ \E r \in new : o.kind = r.kind /\ o.arg = r.arg
  BY <1>6, MountedFacts
<1>9. \A k \in {"list", "panels", "categories"} : (\A v : Alone(calls, k, v)) /\ Sought(calls, k)
  <2>1. ASSUME NEW k \in {"list", "panels", "categories"}
        PROVE  (\A v : Alone(calls, k, v)) /\ Sought(calls, k)
    <3>1. \A q, r \in new : q.kind = k /\ r.kind = k => q.arg = r.arg
      BY <1>5
    <3>2. QED BY <1>5, <1>6, <3>1, MountedAlone
  <2>2. QED BY <2>1
<1>10. \A o \in Requests : o.kind \in {"list", "panels", "categories"} /\ AdminAsk(o, focus) /\ (o.kind = "list" => o.arg = NoQuery)
  BY <1>5, <1>8 DEF AdminAsk
<1>11. AdminType
  BY <1>2, <1>4, <1>7, <1>8, <1>10 DEF AdminType
<1>12. ListsOk /\ CatsOk
  BY <1>9 DEF ListsOk, ListsFresh, CatsOk, CatsFresh
<1>13. Shifts = {} /\ Barred = {}
  BY <1>10 DEF Shifts, Barred
<1>14. RowsTold
  <2>1. Listed(calls, "setStatus")
    BY <1>6, <1>10, MountedFacts DEF Listed, Requests, VisitType
  <2>2. QED BY <1>2, <1>8, <1>13, <2>1 DEF RowsTold
<1>15. PanelsTold
  BY <1>2, <1>8 DEF PanelsTold, Answered, Answer
<1>16. BulkOk
  BY <1>2, <1>8, <1>13 DEF BulkOk, NoBulk
<1>17. QED BY <1>8, <1>11, <1>12, <1>14, <1>15, <1>16 DEF AdminCore

\* Once everything is answered, the page shows what is true.
LEMMA AdminEnd == ASSUME AdminCore, Settled PROVE AdminRegistryTrue
<1>1. \A k : ~Sought(calls, k)
  BY SettledAlone
<1>2. ~ListsChanged /\ ~CatsChanged /\ Shifts = {}
  BY DEF ListsChanged, CatsChanged, Shifts, Settled
<1>3. /\ st.rows = ListPage(srv.status, st.query) /\ st.shown = st.query
      /\ st.panels = PanelsOf(srv) /\ st.categories = srv.categories
  BY <1>1, <1>2 DEF AdminCore, ListsOk, ListsFresh, CatsOk, CatsFresh
<1>4. st.panels.suggestions = srv.suggestions /\ st.panels.reports = srv.reports
  BY <1>3, PanelsOfFacts DEF AdminCore, AdminType
<1>5. ASSUME st.outcome # None, st.outcome.tone = "success"
      PROVE  CASE st.outcome.panel = "items" -> srv.status[st.outcome.about.id] = st.outcome.about.to
               [] st.outcome.panel = "suggestions" -> st.outcome.about.id \notin st.panels.suggestions
               [] st.outcome.panel = "reports" -> st.outcome.about.id \notin st.panels.reports
  <2>1. st.outcome.panel \in {"items", "suggestions", "reports"}
    BY <1>5 DEF AdminCore, AdminType, AdminState
  <2>2. st.outcome.panel = "items" => srv.status[st.outcome.about.id] = st.outcome.about.to
    BY <1>2, <1>5 DEF AdminCore, AdminType, AdminState, RowsTold
  <2>3. st.outcome.panel = "suggestions" => st.outcome.about.id \notin st.panels.suggestions
    BY <1>4, <1>5 DEF AdminCore, PanelsTold
  <2>4. st.outcome.panel = "reports" => st.outcome.about.id \notin st.panels.reports
    BY <1>4, <1>5 DEF AdminCore, PanelsTold
  <2>5. QED BY <2>1, <2>2, <2>3, <2>4
<1>6. st.bulk.phase = "done" =>
        /\ st.bulk.plan = st.bulk.confirmed
        /\ st.bulk.confirmed.batch \subseteq With(srv.status, "published")
        /\ st.bulk.confirmed.below \subseteq With(srv.status, "draft")
  BY DEF AdminCore, BulkOk, Done
<1>7. QED BY <1>3, <1>5, <1>6 DEF AdminRegistryTrue

-----------------------------------------------------------------------------
(* The page frame *)

\* Words of one and of two segments.
LEMMA WordFacts ==
  ASSUME NEW a, NEW b, NEW c, NEW d
  PROVE  /\ StartsWith(<<a>>, <<c>>) <=> a = c
         /\ StartsWith(<<a, b>>, <<c>>) <=> a = c
         /\ ~StartsWith(<<a>>, <<c, d>>)
         /\ StartsWith(<<a, b>>, <<c, d>>) <=> a = c /\ b = d
<1>1. DOMAIN <<a>> = {1} /\ DOMAIN <<c>> = {1} /\ DOMAIN <<a, b>> = {1, 2} /\ DOMAIN <<c, d>> = {1, 2}
  OBVIOUS
<1>2. <<a>>[1] = a /\ <<c>>[1] = c /\ <<a, b>>[1] = a /\ <<a, b>>[2] = b /\ <<c, d>>[1] = c /\ <<c, d>>[2] = d
  OBVIOUS
<1>3. QED BY <1>1, <1>2 DEF StartsWith

LEMMA StartsWithFacts ==
  /\ \A a, c : StartsWith(<<a>>, <<c>>) <=> a = c
  /\ \A a, b, c : StartsWith(<<a, b>>, <<c>>) <=> a = c
  /\ \A a, c, d : ~StartsWith(<<a>>, <<c, d>>)
  /\ \A a, b, c, d : StartsWith(<<a, b>>, <<c, d>>) <=> a = c /\ b = d
<1>1. ASSUME NEW a, NEW c PROVE StartsWith(<<a>>, <<c>>) <=> a = c
  BY WordFacts
<1>2. ASSUME NEW a, NEW b, NEW c PROVE StartsWith(<<a, b>>, <<c>>) <=> a = c
  BY WordFacts
<1>3. ASSUME NEW a, NEW c, NEW d PROVE ~StartsWith(<<a>>, <<c, d>>)
  BY WordFacts
<1>4. ASSUME NEW a, NEW b, NEW c, NEW d PROVE StartsWith(<<a, b>>, <<c, d>>) <=> a = c /\ b = d
  BY WordFacts
<1>5. QED BY <1>1, <1>2, <1>3, <1>4, Zenon

LEMMA NavList ==
  NavItems = {Wide(<<"dashboard">>), Exact(<<"agents">>), Wide(<<"agents", "devices">>), Wide(<<"agents", "mcp">>),
              Wide(<<"agents", "skills">>), Wide(<<"agents", "permissions">>), Wide(<<"agents", "attack-paths">>),
              Exact(<<"marketplace">>), Wide(<<"marketplace", "saved">>), Wide(<<"marketplace", "submit">>),
              Wide(<<"scans", "new">>), Wide(<<"scans", "history">>), Wide(<<"integrations">>), Wide(<<"usage">>),
              Wide(<<"settings", "ai-providers">>), Wide(<<"settings", "team">>), Wide(<<"settings", "api-keys">>),
              Wide(<<"settings", "billing">>)}
<1>1. DOMAIN NavGroups = {"root", "security", "registry", "scanning", "automation", "account"}
  BY DEF NavGroups
<1>2. NavItems = NavGroups["root"] \cup NavGroups["security"] \cup NavGroups["registry"]
                 \cup NavGroups["scanning"] \cup NavGroups["automation"] \cup NavGroups["account"]
  BY <1>1 DEF NavItems
<1>3. /\ {Wide(<<"agents", x>>) : x \in {"devices", "mcp", "skills", "permissions", "attack-paths"}} =
           {Wide(<<"agents", "devices">>), Wide(<<"agents", "mcp">>), Wide(<<"agents", "skills">>),
            Wide(<<"agents", "permissions">>), Wide(<<"agents", "attack-paths">>)}
      /\ {Wide(<<"marketplace", x>>) : x \in {"saved", "submit"}} = {Wide(<<"marketplace", "saved">>), Wide(<<"marketplace", "submit">>)}
      /\ {Wide(<<"scans", x>>) : x \in {"new", "history"}} = {Wide(<<"scans", "new">>), Wide(<<"scans", "history">>)}
      /\ {Wide(<<"settings", x>>) : x \in {"ai-providers", "team", "api-keys", "billing"}} =
           {Wide(<<"settings", "ai-providers">>), Wide(<<"settings", "team">>), Wide(<<"settings", "api-keys">>), Wide(<<"settings", "billing">>)}
  OBVIOUS
<1>4. QED BY <1>2, <1>3 DEF NavGroups

Alike == {"dashboard", "integrations", "usage"}
LEMMA NavForm ==
  ASSUME NEW item \in NavItems
  PROVE  \/ \E a \in Alike : item = Wide(<<a>>)
         \/ \E a \in {"agents", "marketplace"} : item = Exact(<<a>>)
         \/ \E a \in {"agents", "marketplace", "scans", "settings"} : \E b : item = Wide(<<a, b>>)
BY NavList DEF Alike

LEMMA HrefFacts == \A h : Wide(h).href = h /\ Wide(h).exact = FALSE /\ Exact(h).href = h /\ Exact(h).exact = TRUE
BY DEF Wide, Exact

\* Every page that the sidebar names highlights itself alone.
LEMMA ActiveAlone == \A item \in NavItems : Active(item.href) = {item}
<1>1. ASSUME NEW item \in NavItems, NEW other \in NavItems, IsActivePath(item.href, other)
      PROVE  other = item
  <2>1. CASE \E c \in {"agents", "marketplace"} : other = Exact(<<c>>)
    <3>1. PICK c \in {"agents", "marketplace"} : other = Exact(<<c>>)
      BY <2>1
    <3>2. item.href = <<c>>
      BY <1>1, <3>1, HrefFacts DEF IsActivePath
    <3>3. CASE \E a \in Alike : item = Wide(<<a>>)
      BY <3>2, <3>3, HrefFacts DEF Alike
    <3>4. CASE \E a \in {"agents", "marketplace"} : item = Exact(<<a>>)
      BY <3>1, <3>2, <3>4, HrefFacts
    <3>5. CASE \E a \in {"agents", "marketplace", "scans", "settings"} : \E b : item = Wide(<<a, b>>)
      BY <3>2, <3>5, HrefFacts
    <3>6. QED BY <3>3, <3>4, <3>5, NavForm
  <2>2. CASE \E c \in Alike : other = Wide(<<c>>)
    <3>1. PICK c \in Alike : other = Wide(<<c>>)
      BY <2>2
    <3>2. StartsWith(item.href, <<c>>)
      BY <1>1, <3>1, HrefFacts DEF IsActivePath
    <3>3. CASE \E a \in Alike : item = Wide(<<a>>)
      BY <3>1, <3>2, <3>3, HrefFacts, StartsWithFacts
    <3>4. CASE \E a \in {"agents", "marketplace"} : item = Exact(<<a>>)
      BY <3>2, <3>4, HrefFacts, StartsWithFacts DEF Alike
    <3>5. CASE \E a \in {"agents", "marketplace", "scans", "settings"} : \E b : item = Wide(<<a, b>>)
      BY <3>2, <3>5, HrefFacts, StartsWithFacts DEF Alike
    <3>6. QED BY <3>3, <3>4, <3>5, NavForm
  <2>3. CASE \E c, d : other = Wide(<<c, d>>)
    <3>1. PICK c, d : other = Wide(<<c, d>>)
      BY <2>3
    <3>2. StartsWith(item.href, <<c, d>>)
      BY <1>1, <3>1, HrefFacts DEF IsActivePath
    <3>3. CASE \E a : item.href = <<a>>
      BY <3>2, <3>3, StartsWithFacts
    <3>4. CASE \E a, b : item = Wide(<<a, b>>)
      BY <3>1, <3>2, <3>4, HrefFacts, StartsWithFacts
    <3>5. (\E a : item = Wide(<<a>>)) \/ (\E a : item = Exact(<<a>>)) \/ \E a, b : item = Wide(<<a, b>>)
      BY NavForm
    <3>6. QED BY <3>3, <3>4, <3>5, HrefFacts
  <2>4. \/ \E a \in Alike : other = Wide(<<a>>)
        \/ \E a \in {"agents", "marketplace"} : other = Exact(<<a>>)
        \/ \E a \in {"agents", "marketplace", "scans", "settings"} : \E b : other = Wide(<<a, b>>)
    BY NavForm
  <2>5. QED BY <2>1, <2>2, <2>3, <2>4
<1>2. ASSUME NEW item \in NavItems
      PROVE  IsActivePath(item.href, item)
  <2>1. CASE item.exact
    BY <2>1 DEF IsActivePath
  <2>2. StartsWith(item.href, item.href)
    BY DEF StartsWith
  <2>3. QED BY <2>1, <2>2 DEF IsActivePath
<1>3. QED BY <1>1, <1>2 DEF Active

\* Who has no session is admitted to no page that needs one.
LEMMA LoginOpen == ~Under(Login, ProtectedRoutes)
<1>1. ASSUME NEW p \in ProtectedRoutes PROVE ~StartsWith(Login, p)
  <2>1. PICK x \in {"dashboard", "onboarding", "scans", "settings", "integrations", "usage", "admin", "agents"} : p = <<x>>
    BY DEF ProtectedRoutes
  <2>2. StartsWith(<<"login">>, <<x>>) <=> "login" = x
    BY StartsWithFacts
  <2>3. QED BY <2>1, <2>2 DEF Login
<1>2. QED BY <1>1 DEF Under

LEMMA AdmittedOpen == ASSUME NEW path PROVE ~Under(Admitted(path, FALSE), ProtectedRoutes)
BY LoginOpen DEF Admitted

ShellAsked(c, a) ==
  /\ c.kind \in {"go", "signOut", "plan"}
  /\ c.kind = "go" => c.arg.user = st.cookie /\ a \in {Waiting, Admitted(c.arg.to, c.arg.user)}
  /\ c.kind = "signOut" => a \in {Waiting, "ok"}

ShellType ==
  /\ DOMAIN st = {"path", "email", "cookie", "closed", "drawer", "tier"}
  /\ st.email \in BOOLEAN /\ st.cookie \in BOOLEAN
  /\ srv = [plan |-> "pro"]
  /\ \A c \in Requests : ShellAsked(c, calls[c])

\* The frame knows who is there, or a refresh is under way; and so on.
ShellCore ==
  /\ ShellType
  /\ \A c, d \in Requests : c.kind = "go" /\ d.kind = "go" => c = d
  /\ st.email = st.cookie \/ \E c \in Requests : c.kind = "go" /\ c.arg.refresh
  /\ Under(st.path, ProtectedRoutes) => st.cookie \/ \E c \in Requests : c.kind = "go"
  /\ Alone(calls, "plan", "pro")
  /\ Frame = "sidebar" => Sought(calls, "plan") \/ st.tier = "pro"

\* The steps that this page takes while nobody else does anything.
LEMMA ShellSteps ==
  ASSUME page = "shell", ShellCore, Inside
  PROVE  \/ ShellClick
         \/ \E c \in Requests : ShellServe(c) \/ (c.kind = "plan" /\ Replies(c, "pro", srv)) \/ (Answer(c) # Waiting /\ ShellArrive(c))
<1>1. \A c \in Requests : c.kind \in {"go", "signOut", "plan"}
  BY DEF ShellCore, ShellType, ShellAsked
<1>2. DOMAIN srv = {"plan"} /\ srv["plan"] = "pro"
  BY DEF ShellCore, ShellType
<1>3. QED
  BY <1>1, <1>2 DEF Inside, Click, ServeSome, Serve, ServeRead, ArriveSome, Arrive, TimerSome, PosturePages, FilterPages,
       InstallUrlServed, DetailsServe, ReportServe, AgentServe, RegistryServe, SubmitServe, NewItemServe

\* Every step of a calm visit keeps it so.
LEMMA ShellCalm ==
  ASSUME page = "shell", VisitType, ShellCore, Inside
  PROVE  ShellCore'
<1>1. /\ DOMAIN st = {"path", "email", "cookie", "closed", "drawer", "tier"}
      /\ st.email \in BOOLEAN /\ st.cookie \in BOOLEAN
      /\ srv = [plan |-> "pro"] /\ DOMAIN srv = {"plan"} /\ srv["plan"] = "pro"
      /\ (\A c \in Requests : ShellAsked(c, calls[c]))
      /\ \A c, d \in Requests : c.kind = "go" /\ d.kind = "go" => c = d
      /\ st.email = st.cookie \/ \E c \in Requests : c.kind = "go" /\ c.arg.refresh
      /\ Under(st.path, ProtectedRoutes) => st.cookie \/ \E c \in Requests : c.kind = "go"
      /\ Alone(calls, "plan", "pro")
      /\ Frame = "sidebar" => Sought(calls, "plan") \/ st.tier = "pro"
  BY DEF ShellCore, ShellType
\* A navigation in place of the one under way.
<1>2. ASSUME NEW kept \in SUBSET Requests, NEW q, Sends(kept, {q}), srv' = srv, DOMAIN st' = DOMAIN st,
             st'.path = st.path, st'.email = st.email, st'.tier = st.tier, st'.cookie \in BOOLEAN,
             \A o \in Requests : o.kind = "go" => o \notin kept,
             \A o \in Requests : o.kind = "plan" => o \in kept,
             q.kind = "go", q.arg.user = st'.cookie, q.arg.refresh \/ st'.email = st'.cookie
      PROVE  ShellCore'
  <2>1. /\ \A o \in New({q}) : o.kind = "go" /\ o.arg = q.arg
        /\ Requests' = kept \cup New({q}) /\ (\A o \in kept : calls'[o] = calls[o]) /\ \A o \in New({q}) : calls'[o] = Waiting
    <3>1. ASSUME NEW o \in New({q}) PROVE o.kind = "go" /\ o.arg = q.arg
      <4>1. \E r \in {q} : o.kind = r.kind /\ o.arg = r.arg
        BY NewFacts
      <4>2. QED BY <1>2, <4>1
    <3>2. QED BY <1>2, <3>1 DEF Sends
  <2>2. Sought(calls', "go") /\ Alone(calls', "go", Waiting)
    <3>1. (\A o \in kept : o.kind # "go") /\ (\A r, p \in {q} : r.kind = "go" /\ p.kind = "go" => r.arg = p.arg)
          /\ \E r \in {q} : r.kind = "go"
      BY <1>2
    <3>2. QED BY <1>2, <3>1, RenewsAlone
  <2>3. Alone(calls', "plan", "pro") /\ (Sought(calls', "plan") <=> \E o \in kept : o.kind = "plan")
    <3>1. \A r \in {q} : r.kind # "plan"
      BY <1>2
    <3>2. QED BY <1>1, <1>2, <3>1, SendsAlone
  <2>4. Sought(calls, "plan") => Sought(calls', "plan")
    BY <1>2, <2>3 DEF Sought, Requests
  <2>5. ASSUME NEW c \in Requests'
        PROVE  /\ c.kind \in {"go", "signOut", "plan"}
               /\ c.kind = "go" => c.arg.user = st'.cookie /\ calls'[c] \in {Waiting, Admitted(c.arg.to, c.arg.user)}
               /\ c.kind = "signOut" => calls'[c] \in {Waiting, "ok"}
    <3>1. CASE c \in kept
      BY <1>1, <1>2, <2>1, <3>1 DEF ShellAsked
    <3>2. CASE c \in New({q})
      BY <1>2, <2>1, <3>2
    <3>3. QED BY <2>1, <2>5, <3>1, <3>2
  <2>6. ShellType'
    BY <1>1, <1>2, <2>5 DEF ShellType, ShellAsked
  <2>7. (\E c \in Requests' : c.kind = "go" /\ c.arg = q.arg) /\ \A c, d \in Requests' : c.kind = "go" /\ d.kind = "go" => c = d
    <3>1. PICK c \in Requests' : c.kind = "go"
      BY <2>2 DEF Sought, Requests
    <3>2. c.arg = q.arg
      BY <1>2, <2>1, <3>1
    <3>3. QED BY <2>2, <3>1, <3>2 DEF Alone, Requests
  <2>8. Frame' = Frame
    BY <1>2 DEF Frame
  <2>9. QED BY <1>1, <1>2, <2>3, <2>4, <2>6, <2>7, <2>8 DEF ShellCore
\* What no navigation is sent or ended by.
<1>3. ASSUME NEW kept \in SUBSET Requests, NEW new, Sends(kept, new), srv' = srv, DOMAIN st' = DOMAIN st,
             st'.path = st.path, st'.email = st.email, st'.tier = st.tier \/ st'.tier = "pro", st'.cookie = st.cookie,
             \A o \in Requests : o.kind = "go" => o \in kept,
             \A o \in Requests : o.kind = "plan" => o \in kept \/ st'.tier = "pro",
             \A r \in new : r.kind = "signOut"
      PROVE  ShellCore'
  <2>1. /\ \A o \in New(new) : o.kind = "signOut"
        /\ Requests' = kept \cup New(new) /\ (\A o \in kept : calls'[o] = calls[o]) /\ \A o \in New(new) : calls'[o] = Waiting
    BY <1>3, NewFacts DEF Sends
  <2>2. Alone(calls', "plan", "pro") /\ (Sought(calls', "plan") <=> \E o \in kept : o.kind = "plan")
    <3>1. \A r \in new : r.kind # "plan"
      BY <1>3
    <3>2. QED BY <1>1, <1>3, <3>1, SendsAlone
  <2>3. Sought(calls, "plan") => Sought(calls', "plan") \/ st'.tier = "pro"
    BY <1>3, <2>2 DEF Sought, Requests
  <2>4. ShellType'
    BY <1>1, <1>3, <2>1 DEF ShellType, ShellAsked
  <2>5. /\ \A c \in Requests' : c.kind = "go" => c \in Requests
        /\ \A c \in Requests : c.kind = "go" => c \in Requests'
    BY <1>3, <2>1
  <2>6. Frame' = Frame
    BY <1>3 DEF Frame
  <2>7. QED BY <1>1, <1>3, <2>2, <2>3, <2>4, <2>5, <2>6 DEF ShellCore
<1>4. CASE ShellClick
  <2>1. Requests \ {} = Requests /\ Requests \in SUBSET Requests /\ \A r \in {} : r.kind = "signOut"
    OBVIOUS
  <2>2. ASSUME NEW s, NEW new, Acts(s, {}, new), \A r \in new : r.kind = "signOut", DOMAIN s = DOMAIN st,
               s.path = st.path, s.email = st.email, s.tier = st.tier, s.cookie = st.cookie
        PROVE  ShellCore'
    <3>1. Sends(Requests, new) /\ srv' = srv /\ st' = s
      BY <2>1, <2>2, ActsFacts
    <3>2. QED BY <1>3, <2>1, <2>2, <3>1
  <2>3. ASSUME NEW path, Acts([st EXCEPT !.drawer = FALSE], Pending, {Go(path)})
        PROVE  ShellCore'
    <3> DEFINE s == [st EXCEPT !.drawer = FALSE]
               q == Go(path)
               kept == Requests \ Pending
    <3>1. DOMAIN s = DOMAIN st /\ s.path = st.path /\ s.email = st.email /\ s.tier = st.tier /\ s.cookie = st.cookie
      BY <1>1
    <3>2. q.kind = "go" /\ q.arg.user = st.cookie /\ (q.arg.refresh <=> \E c \in Pending : c.arg.refresh)
      BY DEF Go, Ask
    <3>3. Acts(s, Pending, {q})
      BY <2>3
    <3> HIDE DEF s, q
    <3>4. Sends(kept, {q}) /\ srv' = srv /\ st' = s
      BY <3>3, ActsFacts
    <3>5. \A o \in Requests : o.kind = "go" <=> o \notin kept
      BY DEF Pending, Asking
    <3>6. q.arg.refresh \/ st.email = st.cookie
      BY <1>1, <3>2 DEF Pending, Asking
    <3>7. kept \in SUBSET Requests /\ \A o \in Requests : o.kind = "plan" => o \in kept
      BY <3>5
    <3> HIDE DEF kept
    <3>8. QED BY <1>1, <1>2, <3>1, <3>2, <3>4, <3>5, <3>6, <3>7
  <2>4. CASE Follow
    BY <2>3, <2>4 DEF Follow
  <2>5. ASSUME NEW b, Acts([st EXCEPT !.drawer = b], {}, {}) \/ Acts([st EXCEPT !.closed = b], {}, {})
        PROVE  ShellCore'
    <3> DEFINE s == [st EXCEPT !.drawer = b]
               t == [st EXCEPT !.closed = b]
    <3>1. DOMAIN s = DOMAIN st /\ s.path = st.path /\ s.email = st.email /\ s.tier = st.tier /\ s.cookie = st.cookie
      BY <1>1
    <3>2. DOMAIN t = DOMAIN st /\ t.path = st.path /\ t.email = st.email /\ t.tier = st.tier /\ t.cookie = st.cookie
      BY <1>1
    <3>3. Acts(s, {}, {}) \/ Acts(t, {}, {})
      BY <2>5
    <3> HIDE DEF s, t
    <3>4. QED BY <2>1, <2>2, <3>1, <3>2, <3>3
  <2>6. CASE Acts(st, {}, {Ask("signOut", None)})
    <3>1. \A r \in {Ask("signOut", None)} : r.kind = "signOut"
      BY DEF Ask
    <3>2. QED BY <2>2, <2>6, <3>1
  <2>7. QED BY <1>4, <2>4, <2>5, <2>6 DEF ShellClick
<1>5. ASSUME NEW c \in Requests, NEW a, Replies(c, a, srv), ShellAsked(c, a), c.kind = "plan" => a = "pro"
      PROVE  ShellCore'
  <2>1. /\ st' = st /\ srv' = srv /\ Requests' = Requests
        /\ calls'[c] = a /\ \A o \in Requests \ {c} : calls'[o] = calls[o]
    BY <1>5, RepliesFacts
  <2>2. ShellType'
    BY <1>1, <1>5, <2>1 DEF ShellType, ShellAsked
  <2>3. Alone(calls', "plan", "pro") /\ (Sought(calls', "plan") <=> Sought(calls, "plan"))
    BY <1>1, <1>5, RepliesAlone
  <2>4. Frame' = Frame
    BY <2>1 DEF Frame
  <2>5. QED BY <1>1, <2>1, <2>2, <2>3, <2>4 DEF ShellCore
<1>6. ASSUME NEW c \in Requests, ShellServe(c)
      PROVE  ShellCore'
  <2>1. CASE c.kind = "go" /\ Replies(c, Admitted(c.arg.to, c.arg.user), srv)
    <3>1. ShellAsked(c, Admitted(c.arg.to, c.arg.user))
      BY <1>1, <2>1 DEF ShellAsked
    <3>2. QED BY <1>5, <2>1, <3>1
  <2>2. CASE c.kind = "signOut" /\ Replies(c, "ok", srv)
    <3>1. ShellAsked(c, "ok")
      BY <1>1, <2>2 DEF ShellAsked
    <3>2. QED BY <1>5, <2>2, <3>1
  <2>3. QED BY <1>6, <2>1, <2>2 DEF ShellServe
<1>7. ASSUME NEW c \in Requests, c.kind = "plan", Replies(c, "pro", srv)
      PROVE  ShellCore'
  <2>1. ShellAsked(c, "pro")
    BY <1>7 DEF ShellAsked
  <2>2. QED BY <1>5, <1>7, <2>1
<1>8. ASSUME NEW c \in Requests, Answer(c) # Waiting, ShellArrive(c)
      PROVE  ShellCore'
  <2>1. (Requests \ {c}) \ {} = Requests \ {c} /\ Requests \ {c} \in SUBSET Requests /\ \A r \in {} : r.kind = "signOut"
    OBVIOUS
  <2>2. CASE PlanArrives(c)
    <3> DEFINE s == [st EXCEPT !.tier = "pro"]
               kept == Requests \ {c}
    <3>1. DOMAIN s = DOMAIN st /\ s.path = st.path /\ s.email = st.email /\ s.tier = "pro" /\ s.cookie = st.cookie
      BY <1>1
    <3>2. c.kind = "plan" /\ Answer(c) = "pro" /\ ~Threw(c)
      <4>1. c.kind = "plan" /\ calls[c] = "pro"
        BY <1>1, <1>8, <2>2 DEF PlanArrives, Alone, Answer, Requests
      <4>2. "pro" # Failed
        BY PlanAssumption DEF Marks
      <4>3. QED BY <4>1, <4>2 DEF Threw, Answer
    <3>3. Takes(c, s, {}, {})
      BY <2>2, <3>2 DEF PlanArrives
    <3> HIDE DEF s
    <3>4. Sends(kept, {}) /\ srv' = srv /\ st' = s
      BY <2>1, <3>3, TakesFacts
    <3>5. \A o \in Requests : o.kind = "go" => o \in kept
      BY <3>2
    <3> HIDE DEF kept
    <3>6. kept \in SUBSET Requests
      BY DEF kept
    <3>7. QED BY <1>3, <2>1, <3>1, <3>4, <3>5, <3>6
  <2>3. CASE SignedOut(c)
    <3> DEFINE s == [st EXCEPT !.cookie = FALSE]
               q == Ask("go", [to |-> Login, user |-> FALSE, refresh |-> TRUE])
               kept == (Requests \ {c}) \ Pending
    <3>1. DOMAIN s = DOMAIN st /\ s.path = st.path /\ s.email = st.email /\ s.tier = st.tier /\ s.cookie = FALSE
      BY <1>1
    <3>2. c.kind = "signOut" /\ ~Threw(c)
      <4>1. c.kind = "signOut" /\ calls[c] = "ok"
        BY <1>1, <1>8, <2>3 DEF SignedOut, ShellAsked, Answer
      <4>2. QED BY <4>1, MarksAssumption DEF Threw, Answer, Marks
    <3>3. Takes(c, s, Pending, {q})
      <4> DEFINE t == [st EXCEPT !.cookie = @ /\ Threw(c)]
      <4>1. (st.cookie /\ Threw(c)) = FALSE
        BY <3>2
      <4>2. t = s
        BY <4>1
      <4>3. Takes(c, t, Pending, {Ask("go", [to |-> Login, user |-> t.cookie, refresh |-> TRUE])})
        BY <2>3 DEF SignedOut
      <4> HIDE DEF t
      <4>4. QED BY <3>1, <4>2, <4>3
    <3>4. q.kind = "go" /\ q.arg.user = FALSE /\ q.arg.refresh
      BY DEF Ask
    <3> HIDE DEF s, q
    <3>5. Sends(kept, {q}) /\ srv' = srv /\ st' = s
      BY <3>3, TakesFacts
    <3>6. kept \in SUBSET Requests /\ (\A o \in Requests : o.kind = "go" => o \notin kept) /\ \A o \in Requests : o.kind = "plan" => o \in kept
      BY <3>2 DEF Pending, Asking
    <3> HIDE DEF kept
    <3>7. QED BY <1>2, <3>1, <3>4, <3>5, <3>6
  <2>4. CASE PageShown(c)
    <3> DEFINE path == Answer(c)
               email == IF c.arg.refresh THEN c.arg.user ELSE st.email
    <3>1. /\ c.kind = "go" /\ c.arg.user = st.cookie /\ path = Admitted(c.arg.to, st.cookie)
          /\ \A o \in Requests \ {c} : o.kind # "go"
      BY <1>1, <1>8, <2>4 DEF PageShown, ShellAsked, Answer
    <3>2. email = st.cookie
      BY <1>1, <3>1
    <3>3. Under(path, ProtectedRoutes) => st.cookie
      <4>1. st.cookie = TRUE \/ st.cookie = FALSE
        BY <1>1
      <4>2. QED BY <3>1, <4>1, AdmittedOpen
    <3>4. Shown(c, path, email)
      BY <2>4 DEF PageShown
    <3> HIDE DEF path, email
    <3>5. ASSUME NEW s, NEW dropped \in SUBSET Requests, NEW new, Takes(c, s, dropped, new), DOMAIN s = DOMAIN st,
                 s.path = path, s.email = st.cookie, s.cookie = st.cookie, \A r \in new : r.kind = "plan",
                 Alone(calls', "plan", "pro"), FrameOf(path, st.cookie) = "sidebar" => Sought(calls', "plan") \/ s.tier = "pro"
          PROVE  ShellCore'
      <4> DEFINE kept == (Requests \ {c}) \ dropped
      <4>1. Sends(kept, new) /\ srv' = srv /\ st' = s
        BY <3>5, TakesFacts
      <4>2. /\ \A o \in New(new) : o.kind = "plan"
            /\ Requests' = kept \cup New(new) /\ (\A o \in kept : calls'[o] = calls[o]) /\ \A o \in New(new) : calls'[o] = Waiting
        BY <3>5, <4>1, NewFacts DEF Sends
      <4>3. ShellType'
        BY <1>1, <3>5, <4>1, <4>2 DEF ShellType, ShellAsked
      <4>4. \A o \in Requests' : o.kind # "go"
        BY <3>1, <4>2
      <4>5. Frame' = FrameOf(path, st.cookie)
        BY <3>5, <4>1 DEF Frame
      <4> HIDE DEF kept
      <4>6. QED BY <3>3, <3>5, <4>1, <4>3, <4>4, <4>5 DEF ShellCore
    <3>6. CASE FrameOf(path, email) = Frame
      <4> DEFINE s == [st EXCEPT !.path = path, !.email = email]
      <4>1. DOMAIN s = DOMAIN st /\ s.path = path /\ s.email = st.cookie /\ s.cookie = st.cookie /\ s.tier = st.tier
        BY <1>1, <3>2
      <4>2. Takes(c, s, {}, {})
        BY <3>4, <3>6 DEF Shown
      <4> HIDE DEF s
      <4>3. Sends(Requests \ {c}, {})
        BY <2>1, <4>2, TakesFacts
      <4>4. \A r \in {} : r.kind # "plan" /\ r.kind = "plan"
        OBVIOUS
      <4>5. Alone(calls', "plan", "pro") /\ (Sought(calls', "plan") <=> \E o \in Requests \ {c} : o.kind = "plan")
        BY <1>1, <2>1, <4>3, <4>4, SendsAlone
      <4>6. Sought(calls, "plan") => Sought(calls', "plan")
        BY <3>1, <4>5 DEF Sought, Requests
      <4>7. {} \in SUBSET Requests
        OBVIOUS
      <4>8. QED BY <1>1, <3>2, <3>5, <3>6, <4>1, <4>2, <4>4, <4>5, <4>6, <4>7
    <3>7. CASE FrameOf(path, email) # Frame
      <4> DEFINE s == Fresh(path, email, st.cookie)
                 dropped == Asking({"plan"})
                 new == PlanOf(FrameOf(path, email))
                 kept == (Requests \ {c}) \ dropped
      <4>1. DOMAIN s = DOMAIN st /\ s.path = path /\ s.email = st.cookie /\ s.cookie = st.cookie
        BY <1>1, <3>2 DEF Fresh
      <4>2. Takes(c, s, dropped, new)
        BY <3>4, <3>7 DEF Shown
      <4>3. dropped \in SUBSET Requests /\ kept \in SUBSET Requests /\ \A o \in kept : o.kind # "plan"
        BY DEF Asking
      <4>4. /\ \A r \in new : r.kind = "plan" /\ r.arg = None
            /\ FrameOf(path, email) = "sidebar" => \E r \in new : r.kind = "plan"
            /\ FrameOf(path, email) # "sidebar" => new = {}
        BY LoadFacts DEF PlanOf
      <4> HIDE DEF s, new
      <4>5. Sends(kept, new)
        BY <4>2, TakesFacts
      <4> HIDE DEF dropped, kept
      <4>6. CASE FrameOf(path, email) = "sidebar"
        <5>1. Sought(calls', "plan") /\ Alone(calls', "plan", "pro")
          BY <4>3, <4>4, <4>5, <4>6, RenewsAlone
        <5>2. QED BY <3>5, <4>1, <4>2, <4>3, <4>4, <5>1
      <4>7. CASE FrameOf(path, email) # "sidebar"
        <5>1. Sends(kept, {}) /\ \A r \in {} : r.kind # "plan"
          BY <4>4, <4>5, <4>7
        <5>2. Alone(calls', "plan", "pro")
          BY <1>1, <4>3, <5>1, SendsAlone
        <5>3. QED BY <3>2, <3>5, <4>1, <4>2, <4>3, <4>4, <4>7, <5>2
      <4>8. QED BY <4>6, <4>7
    <3>8. QED BY <3>6, <3>7
  <2>5. QED BY <1>8, <2>2, <2>3, <2>4 DEF ShellArrive
<1>9. QED BY <1>4, <1>6, <1>7, <1>8, ShellSteps

\* It is so when the page is mounted.
LEMMA ShellStart == ShellInit => page = "shell" /\ ShellCore
<1> SUFFICES ASSUME ShellInit PROVE page = "shell" /\ ShellCore
  OBVIOUS
<1>1. PICK path \in Routes, user \in BOOLEAN :
        /\ Admitted(path, user) = path
        /\ Mounted("shell", Fresh(path, user, user), PlanOf(FrameOf(path, user)), {[plan |-> "pro"]})
  BY DEF ShellInit
<1> DEFINE s == Fresh(path, user, user)
           new == PlanOf(FrameOf(path, user))
           records == {[plan |-> "pro"]}
<1>2. /\ DOMAIN s = {"path", "email", "cookie", "closed", "drawer", "tier"}
      /\ s.path = path /\ s.email = user /\ s.cookie = user
  BY DEF Fresh
<1>3. Under(path, ProtectedRoutes) => user
  <2>1. user = TRUE \/ user = FALSE
    OBVIOUS
  <2>2. QED BY <1>1, <2>1, AdmittedOpen
<1>4. /\ \A r \in new : r.kind = "plan" /\ r.arg = None
      /\ FrameOf(path, user) = "sidebar" => \E r \in new : r.kind = "plan"
  BY LoadFacts DEF PlanOf
<1>5. Mounted("shell", s, new, records)
  BY <1>1
<1> HIDE DEF s, new
<1>6. \A q, r \in new : q.kind = "plan" /\ r.kind = "plan" => q.arg = r.arg
  BY <1>4
<1>7. /\ page = "shell" /\ st = s /\ srv \in records /\ \A o \in Requests : \E r \in new : o.kind = r.kind /\ o.arg = r.arg
      /\ (\A v : Alone(calls, "plan", v)) /\ \A r \in new : r.kind = "plan" => Sought(calls, "plan")
  BY <1>5, <1>6, MountedAlone
<1>8. \A o \in Requests : o.kind = "plan"
  BY <1>4, <1>7
<1>9. ShellType
  BY <1>2, <1>7, <1>8 DEF ShellType, ShellAsked
<1>10. Frame = FrameOf(path, user)
  BY <1>2, <1>7 DEF Frame
<1>11. QED BY <1>2, <1>3, <1>4, <1>7, <1>8, <1>9, <1>10 DEF ShellCore

\* Once everything is answered, the page shows what is true.
LEMMA ShellEnd == ASSUME ShellCore, Settled PROVE ShellTrue
<1>1. st.email = st.cookie /\ (Under(st.path, ProtectedRoutes) => st.cookie)
  BY DEF ShellCore, Settled
<1>2. Frame = "sidebar" => st.tier = srv.plan
  BY SettledAlone DEF ShellCore, ShellType
<1>3. \A item \in NavItems : st.path = item.href => Active(st.path) = {item}
  BY ActiveAlone
<1>4. \A g \in DOMAIN NavGroups : NavGroups[g] \cap Active(st.path) # {} => Expanded(g)
  BY DEF Expanded
<1>5. QED BY <1>1, <1>2, <1>3, <1>4 DEF ShellTrue

-----------------------------------------------------------------------------
(* Steps in which nothing happens *)

\* A core speaks of the variables alone: where they stay, it stays.
LEMMA OnboardingStays == ASSUME OnboardingCore, UNCHANGED vars PROVE OnboardingCore'
BY DEF vars, OnboardingCore, Requests, OnboardingTrue, Here

LEMMA PickerStays == ASSUME PickerCore, UNCHANGED vars PROVE PickerCore'
BY DEF vars, PickerCore, Requests

LEMMA CardStays == ASSUME CardCore, UNCHANGED vars PROVE CardCore'
BY DEF vars, CardCore, Requests

LEMMA UsageStays == ASSUME UsageCore, UNCHANGED vars PROVE UsageCore'
BY DEF vars, UsageCore, Requests

LEMMA SavedStays == ASSUME SavedCore, UNCHANGED vars PROVE SavedCore'
BY DEF vars, SavedCore, Requests

LEMMA AgentStays == ASSUME AgentCore, UNCHANGED vars PROVE AgentCore'
BY DEF vars, AgentCore, Requests, AgentAnswer

LEMMA KeysStays == ASSUME KeysCore, UNCHANGED vars PROVE KeysCore'
BY DEF vars, KeysCore, KeysType, KeysChanged, Requests, Answered, Answer

LEMMA PostureStays == ASSUME PostureCore, UNCHANGED vars PROVE PostureCore'
BY DEF vars, PostureCore, Requests, ListOf, Leaving, Answered, Answer

LEMMA DashboardStays == ASSUME DashboardCore, UNCHANGED vars PROVE DashboardCore'
BY DEF vars, DashboardCore, Requests, DashboardAnswers, NoDetails, Paired, Answer

LEMMA StatusStays == ASSUME StatusCore, UNCHANGED vars PROVE StatusCore'
BY DEF vars, StatusCore, StatusRecords, Requests, StatusAnswers, Probed, Answer, HistoryAnswer, ProbeAnswer

LEMMA BillingStays == ASSUME BillingCore, UNCHANGED vars PROVE BillingCore'
BY DEF vars, BillingCore, BillingShared, ArchivedRows, Requests

LEMMA PricingStays == ASSUME PricingCore, UNCHANGED vars PROVE PricingCore'
BY DEF vars, PricingCore, Requests

LEMMA ProvidersStays == ASSUME ProvidersCore, UNCHANGED vars PROVE ProvidersCore'
BY DEF vars, ProvidersCore, ProvidersType, ProvidersChanged, Requests, Answered, Answer

LEMMA UserStays == ASSUME UserCore, UNCHANGED vars PROVE UserCore'
BY DEF vars, UserCore, UserType, Requests, Answered, UserChanged, AccountNow, Answer

LEMMA GateStays == ASSUME GateCore, UNCHANGED vars PROVE GateCore'
BY DEF vars, GateCore, Requests, Answered, Answer

LEMMA SubmitStays == ASSUME SubmitCore, UNCHANGED vars PROVE SubmitCore'
BY DEF vars, SubmitCore, SubmitType, Suggesting, Requests, Answered, Answer

LEMMA ItemStays == ASSUME ItemCore, UNCHANGED vars PROVE ItemCore'
BY DEF vars, ItemCore, ItemType, ItemLoading, ItemMissing, ItemShown, Requests, ItemAnswer, Refused

LEMMA NewItemStays == ASSUME NewItemCore, UNCHANGED vars PROVE NewItemCore'
BY DEF vars, NewItemCore, Requests, Answered, Answer

LEMMA FilterStays == ASSUME FilterCore, UNCHANGED vars PROVE FilterCore'
<1>1. page' = page /\ st' = st /\ srv' = srv /\ calls' = calls
  BY DEF vars
<1>2. FilterQuery' = FilterQuery /\ AlongAnswer' = AlongAnswer
  BY <1>1 DEF FilterQuery, AlongAnswer
<1>3. Found(srv, FilterQuery)' = Found(srv, FilterQuery) /\ \A c : Found(srv, c.arg)' = Found(srv, c.arg)
  BY <1>1, <1>2 DEF Found
<1>4. QED BY <1>1, <1>2, <1>3 DEF FilterCore, FilterAsked, Requests

LEMMA ShellStays == ASSUME ShellCore, UNCHANGED vars PROVE ShellCore'
BY DEF vars, ShellCore, ShellType, Requests, Frame, ShellAsked

LEMMA EditorStays == ASSUME EditorCore, UNCHANGED vars PROVE EditorCore'
BY DEF vars, EditorCore, EditorGone, EditorChanged, EditorFresh, Requests, Answered, Answer

LEMMA RegistryStays == ASSUME RegistryCore, UNCHANGED vars PROVE RegistryCore'
BY DEF vars, RegistryCore, RegistryType, Paged, Requests, Sifted, Following, Steady, Asking

LEMMA AdminStays == ASSUME AdminCore, UNCHANGED vars PROVE AdminCore'
BY DEF vars, AdminCore, AdminType, ListsOk, CatsOk, RowsTold, PanelsTold, BulkOk, Requests, ListsChanged, ListsFresh,
       CatsChanged, CatsFresh, Shifts, Answered, Barred, Answer

LEMMA EditorKeptStays == ASSUME EditorKept, UNCHANGED vars PROVE EditorKept'
BY DEF vars, EditorKept, Requests, ColleagueKept

-----------------------------------------------------------------------------
(* The page shows what is true *)

\* What holds of each page of a calm visit, answers in flight included.
PageCore ==
  /\ page = "keys" => KeysCore
  /\ page = "providers" => ProvidersCore
  /\ page = "onboarding" => OnboardingCore
  /\ page = "picker" => PickerCore
  /\ page = "integrations" => CardCore
  /\ page = "billing" => BillingCore
  /\ page = "pricing" => PricingCore
  /\ page = "dashboard" => DashboardCore
  /\ page = "usage" => UsageCore
  /\ page \in PosturePages => PostureCore
  /\ page = "agent" => AgentCore
  /\ page = "registry" => RegistryCore
  /\ page = "item" => ItemCore
  /\ page = "saved" => SavedCore
  /\ page = "submit" => SubmitCore
  /\ page = "adminRegistry" => AdminCore
  /\ page = "newItem" => NewItemCore
  /\ page = "itemEditor" => EditorCore
  /\ page = "gate" => GateCore
  /\ page \in FilterPages => FilterCore
  /\ page = "user" => UserCore
  /\ page = "status" => StatusCore
  /\ page = "shell" => ShellCore

\* Two tabs share what is in the browser, and a colleague edits the same item,
\* whether the visit is calm or not.
TrueInv ==
  /\ VisitType
  /\ page = "billing" => BillingShared
  /\ page = "itemEditor" => EditorKept
  /\ Calm => PageCore

LEMMA TrueInvInit == Init => TrueInv
<1>1. Init => VisitType
  BY FirstInvInit DEF FirstInv
<1>2. KeysInit => page = "keys" /\ KeysCore
  BY KeysStart
<1>3. ProvidersInit => page = "providers" /\ ProvidersCore
  BY ProvidersStart
<1>4. OnboardingInit => page = "onboarding" /\ OnboardingCore
  BY OnboardingStart
<1>5. PickerInit => page = "picker" /\ PickerCore
  BY PickerStart
<1>6. CardInit => page = "integrations" /\ CardCore
  BY CardStart
<1>7. BillingInit => page = "billing" /\ BillingCore /\ BillingShared
  BY BillingStart DEF BillingCore
<1>8. PricingInit => page = "pricing" /\ PricingCore
  BY PricingStart
<1>9. DashboardInit => page = "dashboard" /\ DashboardCore
  BY DashboardStart
<1>10. UsageInit => page = "usage" /\ UsageCore
  BY UsageStart
<1>11. PostureInit => page \in PosturePages /\ PostureCore
  BY PostureStart
<1>12. AgentInit => page = "agent" /\ AgentCore
  BY AgentStart
<1>13. RegistryInit => page = "registry" /\ RegistryCore
  BY RegistryStart
<1>14. ItemInit => page = "item" /\ ItemCore
  BY ItemStart
<1>15. SavedInit => page = "saved" /\ SavedCore
  BY SavedStart
<1>16. SubmitInit => page = "submit" /\ SubmitCore
  BY SubmitStart
<1>17. AdminRegistryInit => page = "adminRegistry" /\ AdminCore
  BY AdminStart
<1>18. NewItemInit => page = "newItem" /\ NewItemCore
  BY NewItemStart
<1>19. EditorInit => page = "itemEditor" /\ EditorCore /\ EditorKept
  BY EditorStart
<1>20. GateInit => page = "gate" /\ GateCore
  BY GateStart
<1>21. FilterInit => page \in FilterPages /\ FilterCore
  BY FilterStart
<1>22. UserInit => page = "user" /\ UserCore
  BY UserStart
<1>23. StatusInit => page = "status" /\ StatusCore
  BY StatusStart
<1>24. ShellInit => page = "shell" /\ ShellCore
  BY ShellStart
<1>25. QED
  BY <1>1, <1>2, <1>3, <1>4, <1>5, <1>6, <1>7, <1>8, <1>9, <1>10, <1>11, <1>12, <1>13, <1>14, <1>15, <1>16, <1>17, <1>18, <1>19, <1>20, <1>21, <1>22, <1>23, <1>24
  DEF Init, TrueInv, PageCore, PosturePages, FilterPages

LEMMA TrueInvNext == TrueInv /\ [Next]_vars => TrueInv'
<1> SUFFICES ASSUME TrueInv, [Next]_vars PROVE TrueInv'
  OBVIOUS
<1>1. VisitType /\ VisitType' /\ page' = page /\ (Calm' => Calm /\ (Inside \/ UNCHANGED vars))
  BY Steps DEF TrueInv
<1>2. page = "billing" => BillingShared'
  BY <1>1, BillingShares DEF TrueInv
<1>3. page = "itemEditor" => EditorKept'
  BY <1>1, EditorKeeps, EditorKeptStays DEF TrueInv
<1>4. ASSUME Calm', Calm, PageCore, Inside
      PROVE  PageCore'
  <2>1. ~overtaken'
    BY <1>4 DEF Calm
  <2>2. page = "keys" => KeysCore'
    BY <1>1, <1>4, <2>1, KeysCalm DEF PageCore
  <2>3. page = "providers" => ProvidersCore'
    BY <1>1, <1>4, ProvidersCalm DEF PageCore
  <2>4. page = "onboarding" => OnboardingCore'
    BY <1>1, <1>4, OnboardingCalm DEF PageCore
  <2>5. page = "picker" => PickerCore'
    BY <1>1, <1>4, PickerCalm DEF PageCore
  <2>6. page = "integrations" => CardCore'
    BY <1>1, <1>4, CardCalm DEF PageCore
  <2>7. page = "billing" => BillingCore'
    BY <1>1, <1>4, BillingCalm DEF PageCore
  <2>8. page = "pricing" => PricingCore'
    BY <1>1, <1>4, PricingCalm DEF PageCore
  <2>9. page = "dashboard" => DashboardCore'
    BY <1>1, <1>4, DashboardCalm DEF PageCore
  <2>10. page = "usage" => UsageCore'
    BY <1>1, <1>4, UsageCalm DEF PageCore
  <2>11. page \in PosturePages => PostureCore'
    BY <1>1, <1>4, PostureCalm DEF PageCore
  <2>12. page = "agent" => AgentCore'
    BY <1>1, <1>4, AgentCalm DEF PageCore
  <2>13. page = "registry" => RegistryCore'
    BY <1>1, <1>4, <2>1, RegistryCalm DEF PageCore
  <2>14. page = "item" => ItemCore'
    BY <1>1, <1>4, <2>1, ItemCalm DEF PageCore
  <2>15. page = "saved" => SavedCore'
    BY <1>1, <1>4, SavedCalm DEF PageCore
  <2>16. page = "submit" => SubmitCore'
    BY <1>1, <1>4, <2>1, SubmitCalm DEF PageCore
  <2>17. page = "adminRegistry" => AdminCore'
    BY <1>1, <1>4, <2>1, AdminCalm DEF PageCore
  <2>18. page = "newItem" => NewItemCore'
    BY <1>1, <1>4, NewItemCalm DEF PageCore
  <2>19. page = "itemEditor" => EditorCore'
    BY <1>1, <1>4, EditorCalm DEF PageCore, TrueInv
  <2>20. page = "gate" => GateCore'
    BY <1>1, <1>4, GateCalm DEF PageCore
  <2>21. page \in FilterPages => FilterCore'
    BY <1>1, <1>4, <2>1, FilterCalm DEF PageCore
  <2>22. page = "user" => UserCore'
    BY <1>1, <1>4, <2>1, UserCalm DEF PageCore
  <2>23. page = "status" => StatusCore'
    BY <1>1, <1>4, StatusCalm DEF PageCore
  <2>24. page = "shell" => ShellCore'
    BY <1>1, <1>4, ShellCalm DEF PageCore
  <2>25. QED BY <1>1, <2>2, <2>3, <2>4, <2>5, <2>6, <2>7, <2>8, <2>9, <2>10, <2>11, <2>12, <2>13, <2>14, <2>15, <2>16, <2>17, <2>18, <2>19, <2>20, <2>21, <2>22, <2>23, <2>24 DEF PageCore
<1>5. ASSUME PageCore, UNCHANGED vars
      PROVE  PageCore'
  BY <1>1, <1>5, KeysStays, ProvidersStays, OnboardingStays, PickerStays, CardStays, BillingStays, PricingStays, DashboardStays, UsageStays, PostureStays, AgentStays, RegistryStays, ItemStays, SavedStays, SubmitStays, AdminStays, NewItemStays, EditorStays, GateStays, FilterStays, UserStays, StatusStays, ShellStays
  DEF PageCore
<1>6. QED BY <1>1, <1>2, <1>3, <1>4, <1>5 DEF TrueInv

LEMMA TrueInvShows == TrueInv => ShownIsTrue
<1> SUFFICES ASSUME TrueInv PROVE ShownIsTrue
  OBVIOUS
<1>1. ASSUME Quiet PROVE PageTrue
  <2>1. Settled /\ PageCore
    BY <1>1 DEF Quiet, TrueInv, Calm
  <2>2. page = "keys" => KeysTrue
    BY <2>1, KeysEnd DEF PageCore
  <2>3. page = "providers" => ProvidersTrue
    BY <2>1, ProvidersEnd DEF PageCore
  <2>4. page = "onboarding" => OnboardingTrue
    BY <2>1 DEF PageCore, OnboardingCore
  <2>5. page = "picker" => PickerTrue
    BY <2>1, PickerEnd DEF PageCore
  <2>6. page = "integrations" => CardTrue
    BY <2>1, CardEnd DEF PageCore
  <2>7. page = "billing" => BillingTrue
    BY <2>1, BillingEnd DEF PageCore
  <2>8. page = "pricing" => PricingTrue
    BY <2>1, PricingEnd DEF PageCore
  <2>9. page = "dashboard" => DashboardTrue
    BY <2>1, DashboardEnd DEF PageCore
  <2>10. page = "usage" => UsageTrue
    BY <2>1, UsageEnd DEF PageCore
  <2>11. page \in PosturePages => PostureTrue
    BY <2>1, PostureEnd DEF PageCore
  <2>12. page = "agent" => AgentTrue
    BY <2>1, AgentEnd DEF PageCore
  <2>13. page = "registry" => RegistryTrue
    BY <2>1, RegistryEnd DEF PageCore
  <2>14. page = "item" => ItemTrue
    BY <2>1, ItemEnd DEF PageCore
  <2>15. page = "saved" => SavedTrue
    BY <2>1, SavedEnd DEF PageCore
  <2>16. page = "submit" => SubmitTrue
    BY <2>1, SubmitEnd DEF PageCore
  <2>17. page = "adminRegistry" => AdminRegistryTrue
    BY <2>1, AdminEnd DEF PageCore
  <2>18. page = "newItem" => NewItemTrue
    BY <2>1, NewItemEnd DEF PageCore
  <2>19. page = "itemEditor" => EditorTrue
    BY <2>1, EditorEnd DEF PageCore
  <2>20. page = "gate" => GateTrue
    BY <2>1, GateEnd DEF PageCore
  <2>21. page \in FilterPages => FilterTrue
    BY <2>1, FilterEnd DEF PageCore
  <2>22. page = "user" => UserTrue
    BY <2>1, UserEnd DEF PageCore
  <2>23. page = "status" => StatusTrue
    BY <2>1, StatusEnd DEF PageCore
  <2>24. page = "shell" => ShellTrue
    BY <2>1, ShellEnd DEF PageCore
  <2>25. QED BY <2>2, <2>3, <2>4, <2>5, <2>6, <2>7, <2>8, <2>9, <2>10, <2>11, <2>12, <2>13, <2>14, <2>15, <2>16, <2>17, <2>18, <2>19, <2>20, <2>21, <2>22, <2>23, <2>24 DEF PageTrue
<1>2. page = "billing" /\ Settled => TabsAgree
  BY BillingAgrees DEF TrueInv
<1>3. page = "itemEditor" => ColleagueKept
  BY DEF TrueInv, EditorKept
<1>4. QED BY <1>1, <1>2, <1>3 DEF ShownIsTrue

\* A calm page with nothing under way shows what the server has; the two tabs of
\* billing agree; and an item keeps what a colleague wrote under every key of
\* the form that this reader did not type into.
THEOREM ShownSafety == Spec => []ShownIsTrue
<1>1. Spec => []TrueInv
  BY TrueInvInit, TrueInvNext, PTL DEF Spec
<1>2. QED BY <1>1, TrueInvShows, PTL
=============================================================================
