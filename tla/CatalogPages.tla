---------------------------- MODULE CatalogPages ----------------------------
(***************************************************************************)
(* The pages of the registry for everybody: browsing it, one item with its *)
(* install and report dialogs, saved items, and suggesting one.            *)
(***************************************************************************)
EXTENDS Visit, Sequences

-----------------------------------------------------------------------------
(* Browsing.  A type, and a price that only servers are asked for, stand   *)
(* for all filters: search text, category, client and order are handled    *)
(* like the type.                                                          *)

Catalog == <<"s1", "p1", "s2", "s3">>   \* bound: the registry in its order
TypeOf  == [s1 |-> "server", s2 |-> "server", s3 |-> "server", p1 |-> "prompt"]
PriceOf == [s1 |-> "free", s2 |-> "paid", s3 |-> "free", p1 |-> "unknown"]

NoFilter == [type |-> None, price |-> None]

ServersOnly(f) == f.type = "server"
Browsing(f)    == f = NoFilter

\* A price left over from browsing servers is not sent for other types.
Query(f) == [f EXCEPT !.price = IF ServersOnly(f) THEN @ ELSE None]

\* What matches, in its order, and one page of it: pages have one item here.
Matching(listed, f, n) ==
  IF n \in DOMAIN listed /\ f.type \in {None, TypeOf[listed[n]]} /\ f.price \in {None, PriceOf[listed[n]]}
  THEN <<listed[n]>> ELSE <<>>
Results(listed, f) ==
  Matching(listed, f, 1) \o Matching(listed, f, 2) \o Matching(listed, f, 3) \o Matching(listed, f, 4)
PageOf(results, n) == [items |-> IF n > Len(results) THEN <<>> ELSE <<results[n]>>, nr |-> n, more |-> Len(results) > n]

PagesOf == [items : {<<>>} \cup {<<i>> : i \in DOMAIN TypeOf}, nr : Nat, more : BOOLEAN]
ASSUME PagesAssumption == \A m \in Marks : m \notin PagesOf

\* The first page follows the filter; pages asked for by a button do not.
FirstPage(f)       == Ask("browse", [filter |-> Query(f), nr |-> 1, append |-> FALSE, button |-> FALSE])
Button(f, n, more) == Ask("browse", [filter |-> Query(f), nr |-> n, append |-> more, button |-> TRUE])
Following          == {c \in Asking({"browse"}) : ~c.arg.button}

RegistryInit ==
  Mounted("registry",
          [items |-> <<>>, types |-> NoData, rails |-> {}, loading |-> TRUE, error |-> FALSE, more |-> FALSE, nr |-> 1,
           filter |-> NoFilter, hasty |-> FALSE],
          {FirstPage(NoFilter), Ask("types", None), Ask("rails", None)},
          {[listed |-> l] : l \in {Catalog, <<>>}})

RegistryServe(c) ==
  \/ c.kind = "browse" /\ Replies(c, PageOf(Results(srv.listed, c.arg.filter), c.arg.nr), srv)
  \/ c.kind = "types" /\ Replies(c, {TypeOf[srv.listed[i]] : i \in DOMAIN srv.listed}, srv)
  \/ c.kind = "rails" /\ Replies(c, {srv.listed[i] : i \in 1..Len(srv.listed)}, srv)

\* Types and rails that do not load are left out.
FacetsArrive(c) ==
  \/ c.kind = "types" /\ Takes(c, [st EXCEPT !.types = IF Threw(c) THEN {} ELSE Answer(c)], {}, {})
  \/ c.kind = "rails" /\ Takes(c, IF Threw(c) THEN st ELSE [st EXCEPT !.rails = Answer(c)], {}, {})

TypeChips == IF st.types = NoData THEN {} ELSE st.types

\* The list of the former filter stays until the new one is here.
Choose(f) == Acts([st EXCEPT !.filter = f], Following, {FirstPage(f)})

\* hasty, a history: the page after one that a new filter is about to replace.
LoadMore(n, more) ==
  Acts([st EXCEPT !.loading = TRUE, !.error = FALSE, !.hasty = @ \/ Following # {}], {}, {Button(st.filter, n, more)})

RegistryClick ==
  \/ \E t \in TypeChips \cup (IF TypeChips = {} THEN {} ELSE {None}) :
       t # st.filter.type /\ Choose([st.filter EXCEPT !.type = t])
  \/ ServersOnly(st.filter) /\ \E p \in {None, "free"} \ {st.filter.price} : Choose([st.filter EXCEPT !.price = p])
  \/ st.error /\ LoadMore(1, FALSE)
  \/ ~st.error /\ st.more /\ ~st.loading /\ LoadMore(st.nr + 1, TRUE)

PageArrives(c) ==
  /\ c.kind = "browse"
  /\ IF Threw(c)
       THEN Takes(c, [st EXCEPT !.error = TRUE, !.loading = FALSE], {}, {})
       ELSE Takes(c, [st EXCEPT !.error = IF c.arg.button THEN @ ELSE FALSE,
                                !.items = IF c.arg.append THEN @ \o Answer(c).items ELSE Answer(c).items,
                                !.more = Answer(c).more, !.nr = Answer(c).nr, !.loading = FALSE], {}, {})

RegistryArrive(c) == FacetsArrive(c) \/ PageArrives(c)

\* The list, or what is said in place of it, and the rails above it.
RegistryView ==
  [ rails |-> IF Browsing(st.filter) THEN st.rails ELSE {},
    body  |-> IF st.error THEN "could not load"
              ELSE IF st.items # <<>> \/ st.loading THEN "list"
              ELSE IF Browsing(st.filter) THEN "nothing listed" ELSE "nothing matches",
    spins |-> st.loading /\ st.items = <<>> ]

RegistryEmpty == RegistryView.body \in {"nothing listed", "nothing matches"}
RegistryBusy  == st.loading

\* As many pages as were asked for of what matches, in its order.
RegistryTrue ==
  LET found == Results(srv.listed, Query(st.filter))
  IN  ~st.hasty =>
        /\ st.items = [n \in 1..(IF Len(found) < st.nr THEN Len(found) ELSE st.nr) |-> found[n]]
        /\ st.more <=> Len(found) > st.nr
        /\ RegistryEmpty <=> found = <<>>
        /\ RegistryView.body = "nothing listed" => srv.listed = <<>>

-----------------------------------------------------------------------------
(* One item *)

\* A listing: what it is, how it can be installed, and the sections it has.
Listings ==
  { [type |-> "server", configs |-> {"claude-code", "cursor"}, repository |-> TRUE, runs |-> "remote", related |-> {"p1"},
     content |-> {"usage"}, events |-> {"listing_added", "grade_changed"}],
    [type |-> "server", configs |-> {}, repository |-> FALSE, runs |-> "package", related |-> {}, content |-> {}, events |-> {"scan_completed"}],
    [type |-> "server", configs |-> {"claude-code"}, repository |-> FALSE, runs |-> "remote", related |-> {}, content |-> {}, events |-> {}],
    [type |-> "prompt", configs |-> {}, repository |-> FALSE, runs |-> None, related |-> {"s1"}, content |-> {"prompt", "examples"}, events |-> {}] }

\* What an item is asked for, and how it can be run.
ItemAnswers == [item : Listings, saved : BOOLEAN]
ASSUME ListingsAssumption == \A m \in Marks : m \notin {"remote", "package"} /\ m \notin Listings /\ m \notin ItemAnswers

NoReport == [open |-> FALSE, done |-> FALSE, error |-> FALSE, filled |-> FALSE, submitting |-> FALSE]

ItemInit ==
  \E l \in Listings, saved, visible, signedIn \in BOOLEAN :
    /\ saved => signedIn
    /\ Mounted("item",
               [item |-> NoData, loading |-> TRUE, notFound |-> FALSE, saved |-> FALSE, toggled |-> 0,
                install |-> FALSE, target |-> None, report |-> NoReport],
               Load({"item"}),
               {[item |-> l, visible |-> visible, saved |-> saved, signedIn |-> signedIn, reports |-> 0]})

\* A listing that is not published, or of another workspace, is not there.
ItemServe(c) ==
  \/ /\ c.kind = "item"
     /\ Replies(c, IF srv.visible THEN [item |-> srv.item, saved |-> srv.saved] ELSE Failed, srv)
  \/ /\ c.kind = "favorite"
     /\ IF srv.signedIn THEN Replies(c, "ok", [srv EXCEPT !.saved = c.arg]) ELSE Replies(c, Failed, srv)
  \/ /\ c.kind = "report"
     /\ IF srv.signedIn THEN Replies(c, "ok", [srv EXCEPT !.reports = @ + 1]) ELSE Replies(c, Failed, srv)

\* Whatever the failure, the page says that there is no such item.
ItemArrives(c) ==
  /\ c.kind = "item"
  /\ Takes(c, IF Threw(c) THEN [st EXCEPT !.loading = FALSE, !.notFound = TRUE]
              ELSE [st EXCEPT !.loading = FALSE, !.item = Answer(c).item, !.saved = Answer(c).saved,
                              !.target = IF Answer(c).item.configs = {} THEN None ELSE "claude-code"], {}, {})

ItemThere == ~st.loading /\ st.item # NoData

\* Where a scan of it starts: the scan page with its target, or the CLI.
ScanHandoff(x) ==
  IF x.type # "server" THEN None ELSE IF x.repository THEN "github_repo"
  ELSE IF x.runs = "remote" THEN "live_mcp_server" ELSE IF x.runs = "package" THEN "command" ELSE None

\* The page, section by section.  Events of scans the registry once ran are
\* not shown.
ItemView(x) ==
  [ install  |-> IF x.type # "server" THEN "none" ELSE IF x.configs = {} THEN "disabled" ELSE "offered",
    scan     |-> ScanHandoff(x),
    timeline |-> x.events \ {"scan_completed", "grade_changed"},
    source   |-> {"listed via", "licence"} \cup (IF x.repository THEN {"repository"} ELSE {})
                                           \cup (IF x.type = "server" THEN {"pricing"} ELSE {}),
    versions |-> x.type = "server" ]

\* How to use it: through Aevrin, from its repository, or as a server.
UseSection(x) == {"aevrin"} \cup (IF x.repository THEN {"clone"} ELSE {}) \cup x.configs
ItemContentSections(x) == x.content
RelatedSection(x) == x.related

\* Saved at once, and taken back if the request fails.
Toggle == Acts([st EXCEPT !.saved = ~@, !.toggled = @ + 1], {}, {Ask("favorite", ~st.saved)})

Toggled(c) ==
  /\ c.kind = "favorite"
  /\ Takes(c, IF Threw(c) THEN [st EXCEPT !.saved = ~c.arg] ELSE st, {}, {})

SubmitReport == Acts([st EXCEPT !.report.submitting = TRUE, !.report.error = FALSE], {}, {Ask("report", None)})

ReportSent(c) ==
  /\ c.kind = "report"
  /\ Takes(c, IF Threw(c) THEN [st EXCEPT !.report.submitting = FALSE, !.report.error = TRUE]
              ELSE [st EXCEPT !.report.submitting = FALSE, !.report.done = TRUE], {}, {})

\* The button only closes the dialog; leaving it otherwise also clears it.
CloseReport == Acts([st EXCEPT !.report.open = FALSE], {}, {})
LeaveReport == Acts([st EXCEPT !.report = [NoReport EXCEPT !.submitting = st.report.submitting]], {}, {})

ItemClick ==
  /\ ItemThere
  /\ \/ ~st.report.open /\ ~st.install
        /\ \/ Toggle
           \/ ItemView(st.item).install = "offered" /\ Acts([st EXCEPT !.install = TRUE], {}, {})
           \/ Acts([st EXCEPT !.report.open = TRUE], {}, {})
     \/ st.install /\ \E t \in st.item.configs \ {st.target} : Acts([st EXCEPT !.target = t], {}, {})
     \/ st.install /\ Acts([st EXCEPT !.install = FALSE], {}, {})
     \/ /\ st.report.open
        /\ \/ ~st.report.done /\ ~st.report.filled /\ Acts([st EXCEPT !.report.filled = TRUE], {}, {})
           \/ ~st.report.done /\ st.report.filled /\ ~st.report.submitting /\ SubmitReport
           \/ CloseReport
           \/ LeaveReport

ItemArrive(c) == ItemArrives(c) \/ Toggled(c) \/ ReportSent(c)

ItemBusy == st.loading \/ st.report.submitting

\* Who is not signed in sees a second click before the first was refused stay.
ItemTrue ==
  /\ st.notFound <=> ~srv.visible
  /\ ItemThere =>
       /\ srv.signedIn \/ st.toggled < 2 => st.saved = srv.saved
       /\ st.report.done => srv.reports > 0
       /\ ItemView(st.item).install = "offered" <=> srv.item.type = "server" /\ srv.item.configs # {}
       /\ ItemView(st.item).scan # None => srv.item.type = "server" /\ (srv.item.repository \/ srv.item.runs # None)
       /\ st.target # None => st.target \in UseSection(st.item)

-----------------------------------------------------------------------------
(* Saved items *)

Favorites == {{}, {"s1", "p1"}}   \* bound
ASSUME FavoritesAssumption == \A m \in Marks, s \in Favorites : m # s

SavedInit ==
  Mounted("saved", [items |-> {}, loading |-> TRUE], Load({"favorites"}), {[favorites |-> s] : s \in Favorites})

SavedArrives(c) ==
  /\ c.kind = "favorites"
  /\ Takes(c, [st EXCEPT !.loading = FALSE, !.items = IF Threw(c) THEN {} ELSE Answer(c)], {}, {})

SavedEmpty == ~st.loading /\ st.items = {}
SavedTrue  == st.items = srv.favorites

-----------------------------------------------------------------------------
(* Suggesting an item *)

Urls == {"u1", "u2"}   \* bound
StatusPill == [review |-> "In review", published |-> "Published", rejected |-> "Not accepted"]

Submissions == SUBSET [url : Urls, status : DOMAIN StatusPill]
ASSUME SubmissionsAssumption == \A m \in Marks : m \notin Urls /\ \A s \in Submissions : m # s

SubmitInit ==
  Mounted("submit", [url |-> None, submitting |-> FALSE, error |-> FALSE, submitted |-> FALSE, list |-> {}, sent |-> 0],
          Load({"submissions"}),
          [submissions : {{}, {[url |-> "u1", status |-> "rejected"]}}, listed : SUBSET {"u2"}])

\* The list is loaded again when submitted changes: by the first success.
SubmitClick ==
  \/ \E u \in Urls \ {st.url} : Acts([st EXCEPT !.url = u], {}, {})
  \/ /\ st.url # None /\ ~st.submitting
     /\ Acts([st EXCEPT !.submitting = TRUE, !.error = FALSE], {}, {Ask("suggest", st.url)})

\* A source that is listed already, or cannot be fetched, is refused.
SubmitServe(c) ==
  /\ c.kind = "suggest"
  /\ IF c.arg \in srv.listed
       THEN Replies(c, Failed, srv)
       ELSE Replies(c, "ok", [srv EXCEPT !.submissions = @ \cup {[url |-> c.arg, status |-> "review"]},
                                         !.listed = @ \cup {c.arg}])

Suggested(c) ==
  /\ c.kind = "suggest"
  /\ IF Threw(c) THEN Takes(c, [st EXCEPT !.submitting = FALSE, !.error = TRUE], {}, {})
     ELSE Takes(c, [st EXCEPT !.submitting = FALSE, !.submitted = TRUE, !.url = None, !.sent = @ + 1],
                {}, IF st.submitted THEN {} ELSE Load({"submissions"}))

SubmissionsArrive(c) ==
  /\ c.kind = "submissions"
  /\ Takes(c, [st EXCEPT !.list = IF Threw(c) THEN {} ELSE Answer(c)], {}, {})

SubmitArrive(c) == Suggested(c) \/ SubmissionsArrive(c)

SubmissionRows == {[url |-> s.url, pill |-> StatusPill[s.status], link |-> s.status = "published"] : s \in st.list}

SubmitTrue == st.sent < 2 => {r.url : r \in SubmissionRows} = {s.url : s \in srv.submissions}
=============================================================================
