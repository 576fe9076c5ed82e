------------------------------ MODULE AppShell ------------------------------
(***************************************************************************)
(* The frame around the pages: the sidebar of the app, the bar of the      *)
(* public pages or nothing; the plan badge; signing out.  The root layout  *)
(* stays mounted while the reader moves from page to page, so that the     *)
(* identity it was rendered with stays too, until somebody refreshes it.   *)
(***************************************************************************)
EXTENDS Visit

\* A route is its segments: no route of the app is a longer word than a prefix
\* that is compared with it letter by letter.
StartsWith(path, prefix) == \A i \in DOMAIN prefix : i \in DOMAIN path /\ path[i] = prefix[i]
Under(path, prefixes) == \E p \in prefixes : StartsWith(path, p)

Wide(href)   == [href |-> href, exact |-> FALSE]
Exact(href) == [href |-> href, exact |-> TRUE]

NavGroups ==
  [ root       |-> {Wide(<<"dashboard">>)},
    security   |-> {Exact(<<"agents">>)} \cup
                   {Wide(<<"agents", x>>) : x \in {"devices", "mcp", "skills", "permissions", "attack-paths"}},
    registry   |-> {Exact(<<"marketplace">>)} \cup {Wide(<<"marketplace", x>>) : x \in {"saved", "submit"}},
    scanning   |-> {Wide(<<"scans", x>>) : x \in {"new", "history"}},
    automation |-> {Wide(<<"integrations">>)},
    account    |-> {Wide(<<"usage">>)} \cup
                   {Wide(<<"settings", x>>) : x \in {"ai-providers", "team", "api-keys", "billing"}} ]

NavItems == UNION {NavGroups[g] : g \in DOMAIN NavGroups}

IsActivePath(path, item) == IF item.exact THEN path = item.href ELSE StartsWith(path, item.href)
Active(path) == {item \in NavItems : IsActivePath(path, item)}

AppRoutes       == {<<x>> : x \in {"dashboard", "scans", "settings", "integrations", "usage", "agents", "marketplace"}}
BareRoutes      == {<<x>> : x \in {"onboarding", "login", "admin"}}
ProtectedRoutes == {<<x>> : x \in {"dashboard", "onboarding", "scans", "settings", "integrations", "usage", "admin", "agents"}}

ASSUME PlanAssumption == \A m \in Marks : m # "pro"   \* the plan of the visit

Login     == <<"login">>
Dashboard == <<"dashboard">>

\* The routes of the visit: what the sidebar names, and pages that other pages
\* link to.
Routes ==
  {item.href : item \in NavItems} \cup
  {Login, <<"onboarding">>, <<"admin">>, <<"device">>, <<"pricing">>,
   <<"agents", "id">>, <<"scans", "id">>, <<"marketplace", "slug">>}

\* Where the proxy sends a navigation.
Admitted(path, user) ==
  CASE ~user /\ Under(path, ProtectedRoutes) -> Login
    [] user /\ path \in {<<>>, Login}         -> Dashboard
    [] OTHER                                 -> path

FrameOf(path, email) ==
  CASE Under(path, BareRoutes)            -> "bare"
    [] ~Under(path, BareRoutes) /\ email /\ Under(path, AppRoutes) -> "sidebar"
    [] OTHER                              -> "navbar"
Frame == FrameOf(st.path, st.email)

\* Another frame is another component: the sidebar that mounts asks for the plan,
\* and one that unmounts forgets its groups and does not take the answer.
Fresh(path, email, cookie) ==
  [path |-> path, email |-> email, cookie |-> cookie, closed |-> {}, drawer |-> FALSE, tier |-> NoData]
PlanOf(frame) == IF frame = "sidebar" THEN Load({"plan"}) ELSE {}

ShellInit ==
  \E path \in Routes, user \in BOOLEAN :
    /\ Admitted(path, user) = path
    /\ Mounted("shell", Fresh(path, user, user), PlanOf(FrameOf(path, user)), {[plan |-> "pro"]})

\* A later navigation replaces one under way, and keeps the refresh that waits
\* behind it.
Pending  == Asking({"go"})
Go(path) == Ask("go", [to |-> path, user |-> st.cookie, refresh |-> \E c \in Pending : c.arg.refresh])

-----------------------------------------------------------------------------
(* The reader.  Bounds: one group to close, one sign-out under way *)

\* What the frame, and the page in it, link to.  Bound: a page of the sidebar, one
\* that is public, and one outside of the sidebar.
Links ==
  CASE Frame = "sidebar" -> {<<"agents">>, <<"marketplace", "slug">>, <<"pricing">>}
    [] Frame = "navbar"  -> {<<"pricing">>, IF st.email THEN Dashboard ELSE Login, <<"marketplace">>}
    [] OTHER             -> {}

\* A link of the drawer, which has those of the sidebar alone, closes it.
Follow ==
  \E path \in IF st.drawer THEN Links \cap {item.href : item \in NavItems} ELSE Links :
    Acts([st EXCEPT !.drawer = FALSE], Pending, {Go(path)})

ShellClick ==
  \/ Follow
  \/ Frame = "sidebar" /\ ~st.drawer /\
       \/ Acts([st EXCEPT !.drawer = TRUE], {}, {})
       \/ Acts([st EXCEPT !.closed = IF "security" \in @ THEN {} ELSE {"security"}], {}, {})
       \/ Asking({"signOut"}) = {} /\ Acts(st, {}, {Ask("signOut", None)})
  \/ st.drawer /\ Acts([st EXCEPT !.drawer = FALSE], {}, {})

-----------------------------------------------------------------------------
(* The answers *)

ShellServe(c) ==
  \/ c.kind = "go" /\ Replies(c, Admitted(c.arg.to, c.arg.user), srv)
  \/ c.kind = "signOut" /\ Replies(c, "ok", srv)

PlanArrives(c) ==
  /\ c.kind = "plan"
  /\ Takes(c, [st EXCEPT !.tier = IF Threw(c) THEN NoData ELSE Answer(c)], {}, {})

\* Only a refresh renders the layout, and with it the identity, again.
Shown(c, path, email) ==
  IF FrameOf(path, email) = Frame
  THEN Takes(c, [st EXCEPT !.path = path, !.email = email], {}, {})
  ELSE Takes(c, Fresh(path, email, st.cookie), Asking({"plan"}), PlanOf(FrameOf(path, email)))

PageShown(c) ==
  c.kind = "go" /\ Shown(c, Answer(c), IF c.arg.refresh THEN c.arg.user ELSE st.email)

\* Signing out that fails leaves the cookie; the page goes to the login either
\* way, and the proxy sends one who has a cookie back.
SignedOut(c) ==
  /\ c.kind = "signOut"
  /\ LET s == [st EXCEPT !.cookie = @ /\ Threw(c)]
     IN  Takes(c, s, Pending, {Ask("go", [to |-> Login, user |-> s.cookie, refresh |-> TRUE])})

ShellArrive(c) == PlanArrives(c) \/ PageShown(c) \/ SignedOut(c)

-----------------------------------------------------------------------------
(* What the frame shows *)

Expanded(g) == g \notin st.closed \/ NavGroups[g] \cap Active(st.path) # {}

\* Every page that the sidebar names highlights itself and nothing else, and
\* navigation never leaves the highlighted item in a closed group; whoever has
\* no session is on no page that needs one.
ShellTrue ==
  /\ Under(st.path, ProtectedRoutes) => st.cookie
  /\ st.email = st.cookie
  /\ Frame = "sidebar" =>
       /\ st.tier = srv.plan
       /\ \A item \in NavItems : st.path = item.href => Active(st.path) = {item}
       /\ \A g \in DOMAIN NavGroups : NavGroups[g] \cap Active(st.path) # {} => Expanded(g)
=============================================================================
