------------------------- MODULE RegistryAdminPages -------------------------
(***************************************************************************)
(* The administration of the registry: its items in every state, the       *)
(* suggestions and reports, the popularity bar, the categories, and the    *)
(* editor of one item.                                                     *)
(***************************************************************************)
EXTENDS Visit

-----------------------------------------------------------------------------
(* Items.  i1 and i2 are listings of one repository; i4 is not complete    *)
(* enough to be published; what is under review was suggested.             *)

Items      == {"i1", "i2", "i3", "i4"}   \* bound
Place      == [i1 |-> 1, i2 |-> 2, i3 |-> 3, i4 |-> 4]   \* in the order of the list
Conditions == {"draft", "review", "published", "archived", "rejected"}
StarsOf    == [i1 |-> 60, i2 |-> 80, i3 |-> 100, i4 |-> 0]
Repository == [i1 |-> "r1", i2 |-> "r1", i3 |-> "r2", i4 |-> "r3"]
Complete   == {"i1", "i2", "i3"}
Synced     == {"i1", "i2", "i3"}      \* from the registry sync: what a bar applies to
InCategory == [c1 |-> {"i1"}, c2 |-> {}]

PageSize   == 3                       \* bound: PAGE_SIZE
MaxPerCall == 1                       \* bound: BULK_PUBLISH_MAX_PER_CALL
Bars       == {50, 90}                \* bound

With(status, s) == {i \in DOMAIN status : status[i] = s}

\* One page of the items with a status.
ListPage(status, q) ==
  LET found == {i \in Items : q.status \in {None, status[i]}}
      rank(i) == Cardinality({j \in found : Place[j] < Place[i]})
  IN  [i \in {j \in found : rank(j) \in q.nr * PageSize..q.nr * PageSize + PageSize - 1} |-> status[i]]

NoPanels == [summary |-> FALSE, drafts |-> {}, published |-> {}, suggestions |-> {}, reports |-> {}]
PanelsOf(records) ==
  [ summary |-> TRUE, drafts |-> With(records.status, "draft"), published |-> With(records.status, "published"),
    suggestions |-> records.suggestions, reports |-> records.reports ]

\* What a bar would do: of the drafts of one repository the best, none where
\* another listing of it stays published, so many a call; and the published
\* listings below the bar.
BulkPlan(status, bar) ==
  LET below  == {i \in With(status, "published") : StarsOf[i] \in 1..(bar - 1)}
      taken  == {Repository[i] : i \in With(status, "published") \ below}
      fresh  == {i \in With(status, "draft") \cap Synced : StarsOf[i] >= bar /\ Repository[i] \notin taken}
      best   == {i \in fresh \cap Complete : \A j \in fresh \cap Complete : Repository[i] = Repository[j] => StarsOf[j] <= StarsOf[i]}
      batch  == {i \in best : Cardinality({j \in best : StarsOf[j] > StarsOf[i]}) < MaxPerCall}
  IN  [bar |-> bar, batch |-> batch, below |-> below, remaining |-> Cardinality(best \ batch)]

\* What the server answers.
PanelRecords == [summary : BOOLEAN, drafts : SUBSET Items, published : SUBSET Items, suggestions : SUBSET Items, reports : SUBSET Items]
BulkPlans    == [bar : Bars, batch : SUBSET Items, below : SUBSET Items, remaining : Nat]
Categories   == DOMAIN InCategory
Queries      == [status : {None, "published"}, nr : Nat]
ASSUME AdminAssumption ==
  \A m \in Marks : /\ m \notin PanelRecords \cup BulkPlans \cup Queries
                   /\ \A s \in SUBSET Categories : m # s
                   /\ \A s \in SUBSET Items : m \notin [s -> Conditions]

Statuses ==
  { [i1 |-> "draft", i2 |-> "draft", i3 |-> "review", i4 |-> "review"],
    [i1 |-> "published", i2 |-> "draft", i3 |-> "archived", i4 |-> "review"] }

-----------------------------------------------------------------------------
(* The page of the registry.  Bounds: a visit works with the rows, the     *)
(* panels, the dialog of the bar, or the categories; of the rows, with two *)
(* of them.                                                                *)

Worked     == {"i1", "i4"}            \* bound
MaxActions == 2                       \* bound: clicks on rows and panels

NoQuery == [status |-> None, nr |-> 0]
NoBulk  == [open |-> FALSE, phase |-> "previewing", plan |-> None, confirmed |-> None]

ListAndPanels(q) == {Ask("list", q), Ask("panels", None)}

AdminRegistryInit ==
  \E focus \in {"rows", "panels", "bulk", "categories"} :
    Mounted("adminRegistry",
            [rows |-> <<>>, query |-> NoQuery, shown |-> None, loading |-> TRUE, panels |-> None,
             busy |-> None, outcome |-> None, bulk |-> NoBulk, focus |-> focus,
             categories |-> NoData, naming |-> FALSE, saving |-> None],
            ListAndPanels(NoQuery) \cup Load({"categories"}),
            {[status |-> s, suggestions |-> With(s, "review"), reports |-> {"i1"}, categories |-> {"c1"}] : s \in Statuses})

\* The spinner goes when the list or the summary has come.
RegistryThere == ~st.loading \/ (st.panels # None /\ st.panels.summary)
ListLoading   == st.shown # st.query

\* A new query drops the answer to the old one.
AskList(q) == Acts([st EXCEPT !.query = q], Asking({"list"}), {Ask("list", q)})

\* act: the mark and the result of a row's action, of which there is one each.
\* The three panels are asked for together, and stand as one request.
Act(id, kind, panel, to) ==
  /\ st.busy # id
  /\ Acts([st EXCEPT !.busy = id, !.outcome = None], {}, {Ask(kind, [id |-> id, panel |-> panel, to |-> to])})

\* The buttons of a row.
RowActions(status) ==
  CASE status = "archived" -> {"draft"}
    [] status = "published" -> {"draft", "archived"}
    [] OTHER -> {"published", "archived"}

RowsClick ==
  \/ \E s \in {None, "published"} \ {st.query.status} : AskList([status |-> s, nr |-> 0])
  \/ /\ st.rows # <<>>
     /\ \/ st.query.nr > 0 /\ AskList([st.query EXCEPT !.nr = @ - 1])
        \/ Cardinality(DOMAIN st.rows) >= PageSize /\ AskList([st.query EXCEPT !.nr = @ + 1])
  \/ \E i \in Worked \cap DOMAIN st.rows : \E to \in RowActions(st.rows[i]) : Act(i, "setStatus", "items", to)

PanelsClick ==
  \/ st.panels # None /\ \E i \in st.panels.suggestions, d \in {"approved", "rejected"} : Act(i, "decide", "suggestions", d)
  \/ st.panels # None /\ \E r \in st.panels.reports, d \in {"dismissed", "actioned"} : Act(r, "resolve", "reports", d)

\* The bar: it is previewed before anything is written, and the preview's own
\* bar is what the button applies.
Preview(bar) == Acts([st EXCEPT !.bulk = [NoBulk EXCEPT !.open = TRUE]], {}, {Ask("preview", bar)})
Publish == Acts([st EXCEPT !.bulk.phase = "publishing", !.bulk.confirmed = st.bulk.plan], {}, {Ask("publish", st.bulk.plan.bar)})

BulkBusy == st.bulk.open /\ st.bulk.phase \in {"previewing", "publishing"}

BulkClick ==
  \/ ~st.bulk.open /\ Preview(50)
  \/ /\ st.bulk.open /\ ~BulkBusy
     /\ \/ \E bar \in Bars : Preview(bar)
        \/ st.bulk.phase = "preview" /\ st.bulk.plan.batch \cup st.bulk.plan.below # {} /\ Publish
        \/ Acts([st EXCEPT !.bulk.open = FALSE], {}, {})

\* CategoryManager: its own mark and message, and a name that is cleared
\* whether it was saved or not.
CategoriesClick ==
  \/ ~st.naming /\ Acts([st EXCEPT !.naming = TRUE], {}, {})
  \/ st.naming /\ st.saving # "new" /\ Acts([st EXCEPT !.saving = "new"], {}, {Ask("saveCategory", "c2")})
  \/ /\ st.categories # NoData
     /\ \E c \in st.categories \ {st.saving} : Acts([st EXCEPT !.saving = c], {}, {Ask("deleteCategory", c)})

AdminRegistryClick ==
  /\ RegistryThere
  /\ \/ st.focus = "rows" /\ clicks < MaxActions /\ RowsClick
     \/ st.focus = "panels" /\ clicks < MaxActions /\ PanelsClick
     \/ st.focus = "bulk" /\ BulkClick
     \/ st.focus = "categories" /\ CategoriesClick

\* The one gate of publishing.
MayPublish(i) == i \in Complete

AdminRegistryServe(c) ==
  \/ c.kind = "list" /\ Replies(c, ListPage(srv.status, c.arg), srv)
  \/ c.kind = "panels" /\ Replies(c, PanelsOf(srv), srv)
  \/ /\ c.kind = "setStatus"
     /\ IF c.arg.to = "published" /\ ~MayPublish(c.arg.id)
          THEN Replies(c, Failed, srv)
          ELSE Replies(c, "ok", [srv EXCEPT !.status[c.arg.id] = c.arg.to])
  \/ /\ c.kind = "decide"
     /\ IF c.arg.to = "approved" /\ ~MayPublish(c.arg.id)
          THEN Replies(c, Failed, srv)
          ELSE Replies(c, "ok", [srv EXCEPT !.status[c.arg.id] = IF c.arg.to = "approved" THEN "published" ELSE "rejected",
                                            !.suggestions = @ \ {c.arg.id}])
  \/ c.kind = "resolve" /\ Replies(c, "ok", [srv EXCEPT !.reports = @ \ {c.arg.id}])
  \/ c.kind = "preview" /\ Replies(c, BulkPlan(srv.status, c.arg), srv)
  \/ /\ c.kind = "publish"
     /\ LET plan == BulkPlan(srv.status, c.arg)
        IN  Replies(c, plan, [srv EXCEPT !.status = [i \in DOMAIN srv.status |->
              IF i \in plan.batch THEN "published" ELSE IF i \in plan.below THEN "draft" ELSE srv.status[i]]])
  \/ c.kind = "saveCategory" /\ Replies(c, "ok", [srv EXCEPT !.categories = @ \cup {c.arg}])
  \/ /\ c.kind = "deleteCategory"
     /\ IF InCategory[c.arg] # {} THEN Replies(c, Failed, srv)
        ELSE Replies(c, "ok", [srv EXCEPT !.categories = @ \ {c.arg}])

\* A list or a panel that does not load is an empty one.
AdminListArrives(c) ==
  \/ /\ c.kind = "list"
     /\ Takes(c, [st EXCEPT !.rows = IF Threw(c) THEN <<>> ELSE Answer(c), !.shown = c.arg, !.loading = FALSE], {}, {})
  \/ /\ c.kind = "panels"
     /\ Takes(c, [st EXCEPT !.panels = IF Threw(c) THEN NoPanels ELSE Answer(c)], {}, {})
  \/ /\ c.kind = "categories"
     /\ Takes(c, [st EXCEPT !.categories = IF Threw(c) THEN NoData ELSE Answer(c)], {}, {})

\* setReloadToken: the list and the panels, whose running effects end.
Renewed == Asking({"list", "panels"})
Renew   == ListAndPanels(st.query)

ActDone(c) ==
  /\ c.kind \in {"setStatus", "decide", "resolve"}
  /\ LET said == [panel |-> c.arg.panel, tone |-> IF Threw(c) THEN "error" ELSE "success", about |-> c.arg]
         s    == [st EXCEPT !.busy = None, !.outcome = said]
     IN  IF Threw(c) THEN Takes(c, s, {}, {}) ELSE Takes(c, s, Renewed, Renew)

BulkArrives(c) ==
  \/ /\ c.kind = "preview"
     /\ Takes(c, IF Threw(c) THEN [st EXCEPT !.bulk.phase = "error"]
                 ELSE [st EXCEPT !.bulk.phase = "preview", !.bulk.plan = Answer(c)], {}, {})
  \/ /\ c.kind = "publish"
     /\ Takes(c, IF Threw(c) THEN [st EXCEPT !.bulk.phase = "error"]
                 ELSE [st EXCEPT !.bulk.phase = "done", !.bulk.plan = Answer(c)], Renewed, Renew)

CategoryDone(c) ==
  /\ c.kind \in {"saveCategory", "deleteCategory"}
  /\ LET s == [st EXCEPT !.saving = None, !.naming = IF c.kind = "saveCategory" THEN FALSE ELSE @]
     IN  IF Threw(c) THEN Takes(c, s, {}, {})
         ELSE Takes(c, s, Renewed \cup Asking({"categories"}), Renew \cup Load({"categories"}))

AdminRegistryArrive(c) == AdminListArrives(c) \/ ActDone(c) \/ BulkArrives(c) \/ CategoryDone(c)

AdminRegistryBusy == ~RegistryThere \/ ListLoading \/ st.busy # None \/ BulkBusy \/ st.saving # None
NoCategories == st.categories = {}

\* "No items yet", of a list that is not marked as one on its way.
NoItems == RegistryThere /\ ~ListLoading /\ st.rows = <<>>

\* The rows, panels and categories are the server's; the last result is named
\* where it was asked for; the bar did what its preview said.
AdminRegistryTrue ==
  /\ st.rows = ListPage(srv.status, st.query) /\ st.shown = st.query
  /\ st.panels = PanelsOf(srv)
  /\ st.categories = srv.categories
  /\ st.outcome # None /\ st.outcome.tone = "success" =>
       CASE st.outcome.panel = "items" -> srv.status[st.outcome.about.id] = st.outcome.about.to
         [] st.outcome.panel = "suggestions" -> st.outcome.about.id \notin st.panels.suggestions
         [] st.outcome.panel = "reports" -> st.outcome.about.id \notin st.panels.reports
  /\ st.bulk.phase = "done" =>
       /\ st.bulk.plan = st.bulk.confirmed
       /\ st.bulk.confirmed.batch \subseteq With(srv.status, "published")
       /\ st.bulk.confirmed.below \subseteq With(srv.status, "draft")

-----------------------------------------------------------------------------
(* A new item *)

NewItemInit ==
  Mounted("newItem", [at |-> "here", source |-> None, title |-> None, busy |-> FALSE, error |-> FALSE], {},
          {[readable |-> r, created |-> {}] : r \in BOOLEAN})

NewItemClick ==
  /\ st.at = "here"
  /\ \/ st.source = None /\ Acts([st EXCEPT !.source = "url"], {}, {})
     \/ st.title = None /\ Acts([st EXCEPT !.title = "name"], {}, {})
     \/ /\ ~st.busy /\ (st.source # None \/ st.title # None)
        /\ Acts([st EXCEPT !.busy = TRUE, !.error = FALSE], {}, {Ask("create", [source |-> st.source, title |-> st.title])})

\* A source that cannot be read is refused; the title overrides its name.
NewItemServe(c) ==
  /\ c.kind = "create"
  /\ IF c.arg.source # None /\ ~srv.readable THEN Replies(c, Failed, srv)
     ELSE Replies(c, "ok", [srv EXCEPT !.created = @ \cup {c.arg}])

ItemCreated(c) ==
  /\ c.kind = "create"
  /\ Takes(c, IF Threw(c) THEN [st EXCEPT !.busy = FALSE, !.error = TRUE] ELSE [st EXCEPT !.at = "editor"], {}, {})

NewItemBusy == st.at = "here" /\ st.busy
NewItemTrue == (st.at = "editor") <=> (srv.created # {})
-----------------------------------------------------------------------------
(* The editor of an item *)

\* title, recipe and usage stand for the fields this reader edits, description
\* and documentation for those that only a colleague edits; a recipe can be
\* text that is no JSON. The form has a key for each field, except that the
\* nine fields of an item's content are one: usage and documentation are two.
KeyOf   == [title |-> "title", recipe |-> "installation", description |-> "description",
            usage |-> "content", documentation |-> "content"]
Fields  == DOMAIN KeyOf
Theirs  == {"description", "documentation"}
Written == [title |-> {"old", "new", "empty"}, recipe |-> {"old", "new", "not json"}, usage |-> {"old", "new"}]

\* What an item can become.
Texts   == {"old", "new", "empty", "not json", "theirs"}
Stages  == {"published", "draft", "archived"}
Records == [ status : Stages, fields : [Fields -> Texts], links : SUBSET {"x", "y"}, edition : Nat, signals : {"old", "new"} ]
ASSUME RecordsAssumption == \A m \in Marks : m \notin Records

OldItem(s) == [status |-> s, fields |-> [f \in Fields |-> "old"], links |-> {"x"}, edition |-> 0, signals |-> "old"]
Editor(item) == [status |-> item.status, form |-> item.fields]
Closed == [open |-> FALSE, typed |-> FALSE, busy |-> FALSE]

\* Ghosts: whether the reader has typed into the content, and what fields a
\* colleague has changed.
EditorInit ==
  \E s \in Stages :
    Mounted("itemEditor",
            [at |-> "here", raw |-> NoData, form |-> NoData, failed |-> FALSE, busy |-> None, told |-> None,
             tab |-> "details", links |-> {}, saving |-> FALSE, delete |-> Closed, rewrote |-> FALSE],
            Load({"item"}), {[item |-> OldItem(s), there |-> TRUE, theirs |-> {}]})

EditorOpen == st.at = "here" /\ ~st.failed /\ st.raw # NoData

\* changes: the keys that differ from what was loaded are sent, each whole.
Changed == {f \in Fields : st.form[f] # st.raw.fields[f]}
Carried == {f \in Fields : \E g \in Changed : KeyOf[f] = KeyOf[g]}

\* Mutated form of Patch: the whole form is sent.
Patch_Whole == [f \in Fields |-> st.form[f]]
Patch       == [f \in Carried |-> st.form[f]]

\* One action of the bar at a time.
EditorAct(key, kind, arg) == st.busy = None /\ Acts([st EXCEPT !.busy = key, !.told = None], {}, {Ask(kind, arg)})

Save ==
  /\ st.busy = None
  /\ IF "recipe" \in Changed /\ st.form.recipe = "not json" THEN Acts([st EXCEPT !.told = "not json"], {}, {})
     ELSE IF Changed = {} THEN Acts([st EXCEPT !.told = "nothing has changed"], {}, {})
     ELSE EditorAct("save", "patch", Patch)

\* What the bar offers for a status.
Lifecycle(s) ==
  {t \in Stages :
     CASE t = "published" -> s \notin {"published", "archived"}
       [] t = "draft" -> s \in {"published", "archived"}
       [] t = "archived" -> s # "archived"}

EditorClick ==
  /\ EditorOpen
  /\ IF st.delete.open
       THEN \/ ~st.delete.typed /\ Acts([st EXCEPT !.delete.typed = TRUE], {}, {})
            \/ st.delete.typed /\ ~st.delete.busy /\ Acts([st EXCEPT !.delete.busy = TRUE], {}, Load({"remove"}))
            \/ Acts([st EXCEPT !.delete.open = FALSE], {}, {})
            \/ Acts([st EXCEPT !.delete = [Closed EXCEPT !.busy = st.delete.busy]], {}, {})
       ELSE \/ \E f \in DOMAIN Written : \E v \in Written[f] \ {st.form[f]} :
                 st.tab = "details" /\ Acts([st EXCEPT !.form[f] = v, !.rewrote = @ \/ KeyOf[f] = "content"], {}, {})
            \/ Save
            \/ \E t \in Lifecycle(st.raw.status) : EditorAct(t, "setItemStatus", t)
            \/ EditorAct("refresh", "refresh", None)
            \/ st.tab = "details" /\ Acts([st EXCEPT !.tab = "links", !.links = st.raw.links], {}, {})
            \/ st.tab = "links" /\ \E l \in {{}, {"x"}, {"x", "y"}} \ {st.links} : Acts([st EXCEPT !.links = l], {}, {})
            \/ st.tab = "links" /\ ~st.saving /\ Acts([st EXCEPT !.saving = TRUE], {}, {Ask("setLinks", st.links)})
            \/ st.busy = None /\ Acts([st EXCEPT !.delete.open = TRUE], {}, {})

Patched(item, fields) ==
  [item EXCEPT !.fields = [f \in Fields |-> IF f \in DOMAIN fields THEN fields[f] ELSE item.fields[f]]]
Edited(item) == [item EXCEPT !.edition = @ + 1]

\* _validated and the gate of publishing refuse before anything is written.
EditorServe(c) ==
  \/ c.kind = "item" /\ Replies(c, IF srv.there THEN srv.item ELSE Failed, srv)
  \/ /\ c.kind \in {"patch", "setItemStatus", "refresh", "setLinks", "remove"} /\ ~srv.there
     /\ Replies(c, Failed, srv)
  \/ /\ c.kind = "patch" /\ srv.there
     /\ IF "title" \in DOMAIN c.arg /\ c.arg.title = "empty" THEN Replies(c, Failed, srv)
        ELSE Replies(c, "ok", [srv EXCEPT !.item = Edited(Patched(@, c.arg))])
  \/ c.kind = "setItemStatus" /\ srv.there /\ Replies(c, "ok", [srv EXCEPT !.item = Edited([@ EXCEPT !.status = c.arg])])
  \/ c.kind = "refresh" /\ srv.there /\ Replies(c, "ok", [srv EXCEPT !.item.signals = "new"])
  \/ c.kind = "setLinks" /\ srv.there /\ Replies(c, "ok", [srv EXCEPT !.item.links = c.arg])
  \/ c.kind = "remove" /\ srv.there /\ Replies(c, "ok", [srv EXCEPT !.there = FALSE])

\* The form becomes what was loaded, whatever had been typed; the tabs are
\* mounted again when the item was written.
ItemLoaded(c) ==
  /\ c.kind = "item"
  /\ LET same == st.raw # NoData /\ Answered(c) /\ st.raw.edition = Answer(c).edition
     IN  Takes(c, IF Threw(c) THEN [st EXCEPT !.failed = TRUE]
                  ELSE [st EXCEPT !.raw = Answer(c), !.form = Answer(c).fields, !.tab = IF same THEN @ ELSE "details"], {}, {})

ReloadItem(c, s) == IF Threw(c) THEN Takes(c, s, {}, {}) ELSE Takes(c, s, Asking({"item"}), Load({"item"}))

EditorDone(c) ==
  \/ /\ c.kind \in {"patch", "setItemStatus", "refresh"}
     /\ ReloadItem(c, [st EXCEPT !.busy = None, !.told = IF Threw(c) THEN "error" ELSE "done"])
  \/ /\ c.kind = "setLinks"
     /\ ReloadItem(c, [st EXCEPT !.saving = FALSE, !.told = IF Threw(c) THEN @ ELSE "done"])
  \/ /\ c.kind = "remove"
     /\ Takes(c, IF Threw(c) THEN [st EXCEPT !.delete.busy = FALSE] ELSE [st EXCEPT !.at = "registry"], {}, {})

EditorArrive(c) == ItemLoaded(c) \/ EditorDone(c)

\* A colleague edits another field, or deletes the item.
WriteTheirs(f) == [srv EXCEPT !.item = Edited([@ EXCEPT !.fields[f] = "theirs"]), !.theirs = @ \cup {f}]
EditorElsewhere ==
  srv.there /\ Elsewhere({WriteTheirs(f) : f \in Theirs} \cup {[srv EXCEPT !.there = FALSE]})

EditorBusy == st.at = "here" /\ ~st.failed /\ (st.raw = NoData \/ st.busy # None \/ st.saving \/ st.delete.busy)

EditorTrue == IF st.failed \/ st.at = "registry" THEN ~srv.there ELSE st.raw = srv.item

\* What a colleague wrote stays as it is if nobody here typed into its key. A
\* key that was typed into is sent whole: one field of the content, once it is
\* edited, takes the others with it.
ColleagueKept ==
  srv.there => \A f \in srv.theirs : (KeyOf[f] = "content" /\ st.rewrote) \/ srv.item.fields[f] = "theirs"
=============================================================================
